---- MODULE Spec2Model ----
(***************************************************************************)
(* Transaction execution core of xgr-node: the Transition controller       *)
(* (state/executor.go: Write, Apply, apply, applyCall, applyCreate), the   *)
(* EIP-2929 access list (state/runtime/access_list.go) and the             *)
(* engine-execute precompile (state/runtime/precompiled/engine_execute.go).*)
(*                                                                         *)
(* Amounts are counted in units of 10^7 wei so that they fit TLC's         *)
(* integers; the 64-bit gas word is U64Mod wide.                           *)
(***************************************************************************)
EXTENDS Integers, Sequences, FiniteSets, TLC

VARIABLES
    state,        \* Transition.state: the journal (Txn) over the snapshot
    accessList,   \* Transition.ctx.AccessList
    gasPool,      \* Transition.gasPool
    totalGas,     \* Transition.totalGas
    receipts,     \* Transition.receipts
    fees,         \* Transition.donationFee / validatorFee / burnedFee
    cfg,          \* fork configuration, list runtimes, chain parameters, header
    frames,       \* the open CALL/CREATE frames and the maps their access lists point at
    last          \* what the last operation was given and what it returned

vars == <<state, accessList, gasPool, totalGas, receipts, fees, cfg, frames, last>>

-----------------------------------------------------------------------------
(* Bounds of the model *)

\* number of Write calls explored on one Transition
MaxTxs == 3
\* stand-in for 2^64: the width of Go's uint64 gas words
U64Mod == 1048576
\* header.GasLimit of the block being executed
BlockGasLimit == 200000

-----------------------------------------------------------------------------
(* Addresses *)

Nil == "nil"
ErrNone == "none"

ZeroAddress == "0x0"
SystemCaller == "systemCaller"
DefaultBurnedAddress == "0x0666"
DefaultDonationAddress == DefaultBurnedAddress
FeeSplitLogAddress == "0xfEE1"
EngineExecutePrecompile == "engineExecute"
RegistryAddr == "engineRegistry"
Coinbase == "coinbase"

\* the nine standard and four chain-specific precompiles
precompiledContracts ==
    { "0x01", "0x02", "0x03", "0x04", "0x05", "0x06", "0x07", "0x08", "0x09",
      "nativeTransfer", "blsAggSigsVerification", "console", EngineExecutePrecompile }

Senders == { "alice", "bob", "engine", "mallory" }
Users == { "user1", "user2", "user3", "user4" }
Contracts == { "ctr", "target" }
NonceRange == 0 .. MaxTxs

\* crypto.CreateAddress(from, nonce): injective in (from, nonce)
CreateAddress(from, nonce) == "new:" \o from \o ":" \o ToString(nonce)

Created == { CreateAddress(s, n) : s \in {"alice", "bob", "ctr"}, n \in NonceRange }

Addr == Senders \cup Users \cup Contracts \cup Created
        \cup { ZeroAddress, SystemCaller, DefaultBurnedAddress, "donee",
               RegistryAddr, Coinbase, EngineExecutePrecompile }

-----------------------------------------------------------------------------
(* The journal (Txn): balances, nonces, code, storage, logs, refund counter *)

\* chain.EngineRegistrySlotKeyAuthorizedEngine: the mapping key of authorizedEngines[engine]
AuthorizedEngineKey(engine) == "authorizedEngines:" \o engine

\* one session counter shared by every user
kNextOfAll(a) == "XGR:ENGINE:NEXT_PID:"

\* kNext(user): the per-user key of the session counter in the precompile's storage
kNext(a) == "XGR:ENGINE:NEXT_PID:" \o a

\* storage slots the model reads or writes: <<account, key>>
Slots ==
    { <<EngineExecutePrecompile, kNext(u)>> : u \in Users }
    \cup { <<RegistryAddr, k>> : k \in { "paused", "donationAddress", "donationPercent" } }
    \cup { <<RegistryAddr, AuthorizedEngineKey(s)>> : s \in Senders }
    \cup { <<c, "slot1">> : c \in Contracts \cup Created }

GetBalance(st, a) == st.balance[a]
GetNonce(st, a) == st.nonce[a]
GetCode(st, a) == st.code[a]
GetState(st, a, k) == st.storage[<<a, k>>]

AddBalance(st, a, v) == [st EXCEPT !.balance[a] = @ + v]
\* SubBalance fails with ErrNotEnoughFunds and changes nothing when a lacks v
SubBalanceErr(st, a, v) == IF st.balance[a] < v THEN "ErrNotEnoughFunds" ELSE ErrNone
SubBalance(st, a, v) == IF st.balance[a] < v THEN st ELSE [st EXCEPT !.balance[a] = @ - v]
IncrNonce(st, a) == [st EXCEPT !.nonce[a] = @ + 1]
SetCode(st, a, code) == [st EXCEPT !.code[a] = code]
SetState(st, a, k, v) == [st EXCEPT !.storage[<<a, k>>] = v]
EmitLog(st, a, topic) == [st EXCEPT !.logs = Append(@, [address |-> a, topic |-> topic])]
AddRefund(st, g) == [st EXCEPT !.refund = @ + g]
\* CreateAccount keeps the balance of an existing object and resets the rest
CreateAccount(st, a) == [st EXCEPT !.nonce[a] = 0, !.code[a] = 0]
\* Snapshot names the current journal; RevertToSnapshot discards what came after it
Snapshot(st) == st
RevertToSnapshot(st, snapshot) == snapshot
\* Logs() hands the log buffer out and empties it
ClearLogs(st) == [st EXCEPT !.logs = <<>>]
\* CleanDeleteObjects also drops the transaction's refund counter
CleanDeleteObjects(st) == [st EXCEPT !.refund = 0]

-----------------------------------------------------------------------------
(* Access list (state/runtime/access_list.go) *)

NilAccessList == [on |-> FALSE, addresses |-> {}, slots |-> {}]

NewAccessList(init) ==
    [on |-> TRUE, addresses |-> init \cup precompiledContracts, slots |-> {}]

ContainsAddress(al, a) == a \in al.addresses
ContainsSlot(al, a, slot) == <<a, slot>> \in al.slots
AddAddress(al, a) == [al EXCEPT !.addresses = @ \cup {a}]
AddSlot(al, a, slot) ==
    [al EXCEPT !.addresses = @ \cup {a}, !.slots = @ \cup {<<a, slot>>}]
Copy(al) == al
RevertTo(al, snapshot) == [al EXCEPT !.addresses = snapshot.addresses,
                                     !.slots = snapshot.slots]

\* no frame is open and no access list has been made: between transactions
NoReturn == [type |-> Nil, depth |-> 0, err |-> ErrNone, snap |-> 0, entry |-> NilAccessList,
             warmed |-> NilAccessList, after |-> NilAccessList, reverted |-> FALSE]
NoFrames == [maps |-> <<>>, live |-> 0, open |-> <<>>, ret |-> NoReturn]

-----------------------------------------------------------------------------
(* Call frames (state/executor.go) *)

MaxCallDepth == 1024
SpuriousDragonMaxCodeSize == 24576
\* a limit on init code of four contracts' worth
InitCodeSizeOfFourContracts == 4 * SpuriousDragonMaxCodeSize
TxPoolMaxInitCodeSize == 2 * SpuriousDragonMaxCodeSize

Failed(res) == res.err # ErrNone

\* what a frame that is no ENGINE_EXECUTE run reports of the precompile
NoObs ==
    [ran |-> FALSE, authorized |-> FALSE, billed |-> FALSE, fee |-> 0,
     storedAtEntry |-> 0, curNext |-> 0, class |-> Nil, wrote |-> FALSE,
     storedAtReturn |-> 0, preflight |-> Nil, balanceAtPreflight |-> 0, worstTotal |-> 0,
     innerCalled |-> FALSE, innerOk |-> FALSE, storedAtInner |-> 0,
     totalPay |-> 0, transferErr |-> Nil, logsAtReturn |-> <<>>]
NoOut == [success |-> FALSE, totalUnits |-> 0, evmRefund |-> 0, engineFee |-> 0, value |-> 0]

ExecutionResult(gasLeft, err) ==
    [gasLeft |-> gasLeft, gasUsed |-> 0, err |-> err, retLen |-> 0, out |-> NoOut,
     obs |-> NoObs]

\* Transition.Transfer
Transfer(st, from, to, amount) ==
    IF SubBalanceErr(st, from, amount) # ErrNone
    THEN [st |-> st, err |-> "ErrInsufficientBalance"]
    ELSE [st |-> AddBalance(SubBalance(st, from, amount), to, amount), err |-> ErrNone]

\* role of an address in an allow/block list runtime: enabled or not
ListEnabled(list, a) == a \in list.enabled

\* what is left of gas g after the interpreter burnt its share
GasAfter(g, use) ==
    CASE use = "all" -> 0
      [] use = "half" -> g \div 2
      [] OTHER -> g

\* The EVM interpreter on contract c: the code's effects on the journal and the
\* access list are those the outcome oc names; code of length 0 stops at once.
EvmRun(st, al, c, oc) ==
    IF c.codeLen = 0
    THEN [st |-> st, al |-> al, res |-> ExecutionResult(c.gas, ErrNone)]
    ELSE LET s1 == IF oc.sstore
                   THEN SetState(st, c.address, "slot1", GetState(st, c.address, "slot1") + 1)
                   ELSE st
             s2 == IF oc.log THEN EmitLog(s1, c.address, "Event") ELSE s1
             s3 == AddRefund(s2, oc.refund)
             a1 == IF oc.warm /\ al.on THEN AddSlot(al, c.address, "slot1") ELSE al
         IN  [st |-> s3, al |-> a1,
              res |-> [gasLeft |-> GasAfter(c.gas, oc.gasUse), gasUsed |-> 0,
                       err |-> IF oc.ok THEN ErrNone ELSE "ErrExecutionReverted",
                       retLen |-> IF oc.ok THEN oc.retLen ELSE 0, out |-> NoOut,
                       obs |-> NoObs]]

-----------------------------------------------------------------------------
(* Engine-execute precompile (state/runtime/precompiled/engine_execute.go) *)

RECURSIVE ApplyCall(_, _, _, _, _, _)

SecondsPerYear == 31536000
TxBaseUnits == 21000
minMalformedExecuteGas == 21000
engineOverheadGas == 0
nArgsMeta == 13
nArgsExtras == 2

\* Go's uint64 arithmetic
U64(x) == x % U64Mod

\* an authorization that does not look at the paused flag
authorizeIgnoringPaused(st, caller) ==
    LET reg == cfg.EngineRegistryAddress
        bootstrap == cfg.BootstrapEngineEOA # ZeroAddress /\ caller = cfg.BootstrapEngineEOA
    IN  IF reg = ZeroAddress \/ GetCode(st, reg) = 0
        THEN [engine |-> IF bootstrap THEN caller ELSE ZeroAddress, ok |-> bootstrap]
        ELSE IF GetState(st, reg, AuthorizedEngineKey(caller)) = 0
        THEN [engine |-> ZeroAddress, ok |-> FALSE]
        ELSE [engine |-> caller, ok |-> TRUE]

authorizeEngineCaller(st, caller) ==
    LET reg == cfg.EngineRegistryAddress
        bootstrap == cfg.BootstrapEngineEOA # ZeroAddress /\ caller = cfg.BootstrapEngineEOA
        viaBootstrap == [engine |-> IF bootstrap THEN caller ELSE ZeroAddress, ok |-> bootstrap]
        denied == [engine |-> ZeroAddress, ok |-> FALSE]
    IN  IF reg = ZeroAddress THEN viaBootstrap
        ELSE IF GetCode(st, reg) = 0 THEN viaBootstrap
        ELSE IF GetState(st, reg, "paused") # 0 THEN denied
        ELSE IF GetState(st, reg, AuthorizedEngineKey(caller)) = 0 THEN denied
        ELSE [engine |-> caller, ok |-> TRUE]

\* sloadU256 yields nil for an unset slot; every caller reads nil as zero
sloadU256(st, k) == GetState(st, EngineExecutePrecompile, k)

\* a store that is lost
sstoreU256Dropped(st, k, v) == st
\* a store of the successor of the word
sstoreU256OffByOne(st, k, v) == SetState(st, EngineExecutePrecompile, k, v + 1)

\* a store of twice the word
sstoreU256Doubled(st, k, v) == SetState(st, EngineExecutePrecompile, k, 2 * v)

sstoreU256(st, k, v) == SetState(st, EngineExecutePrecompile, k, v)

\* a pidUsed that counts the next pid as used already
pidUsedUpToNext(st, user, pid) ==
    pid > 0 /\ pid <= (IF sloadU256(st, kNext(user)) = 0 THEN 1 ELSE sloadU256(st, kNext(user)))

pidUsed(st, user, pid) ==
    IF pid <= 0 THEN FALSE
    ELSE LET stored == sloadU256(st, kNext(user))
             next == IF stored = 0 THEN 1 ELSE stored
         IN  pid < next

calldataCostUnits(input) == U64(4 * input.zeros + 16 * input.nonzeros)
logCostUnits(topics, dataLen) == U64(375 + 375 * topics + 8 * dataLen)
callOverheadUnits(to, gasLimit, dataLen) ==
    IF to = ZeroAddress \/ gasLimit = 0 THEN 0
    ELSE U64(700 + 2600 + 3 * ((dataLen + 31) \div 32))

pad32(n) == ((n + 31) \div 32) * 32
dynLen(n) == 32 + pad32(n)
calcEngineMetaLen(g, m) ==
    32 * nArgsMeta + dynLen(g.ostcIdLen) + dynLen(m.stepIdLen) + dynLen(m.payloadLen)
    + dynLen(m.apiSavesLen) + dynLen(m.contractSavesLen)
calcEngineExtrasLen(m) == 32 * nArgsExtras + dynLen(m.extrasLen)

calcFee(input, grant, call, meta) ==
    [calldata |-> calldataCostUnits(input),
     metaLen |-> calcEngineMetaLen(grant, meta),
     extrasLen |-> calcEngineExtrasLen(meta),
     callOverhead |-> callOverheadUnits(call.to, call.gasLimit, call.dataLen),
     execLimit |-> IF call.to # ZeroAddress /\ call.gasLimit > 0 THEN call.gasLimit ELSE 0,
     validationGas |-> call.validationGas]

logUnits(f) == U64(logCostUnits(1, f.metaLen) + logCostUnits(1, f.extrasLen))
precompileGasUnits(f) ==
    U64(f.validationGas + logUnits(f) + f.callOverhead + f.execLimit + engineOverheadGas)
evmTxUnits(f) ==
    U64(TxBaseUnits + f.calldata + logUnits(f) + f.callOverhead + f.execLimit + engineOverheadGas)
totalTxUnits(f) == U64(evmTxUnits(f) + f.validationGas)

\* engineExecute.gas
engineGas(input) ==
    IF input.selector = "short" THEN 0
    ELSE IF input.selector # "ENGINE_EXECUTE" THEN 0
    ELSE IF ~input.decodes THEN minMalformedExecuteGas
    ELSE precompileGasUnits(calcFee(input, input.grant, input.call, input.meta))

\* ceil(seconds * perYearWei / year)
GrantFeeWei(seconds, perYearWei) == (perYearWei * seconds + (SecondsPerYear - 1)) \div SecondsPerYear

billGrants(st, payer, engine, seconds, perYearWei) ==
    IF seconds = 0 THEN [st |-> st, fee |-> 0, err |-> ErrNone]
    ELSE LET fee == GrantFeeWei(seconds, perYearWei)
             tr == Transfer(st, payer, engine, fee)
         IN  IF fee = 0 THEN [st |-> st, fee |-> 0, err |-> ErrNone]
             ELSE IF tr.err # ErrNone THEN [st |-> st, fee |-> 0, err |-> tr.err]
             ELSE [st |-> tr.st, fee |-> fee, err |-> ErrNone]

\* a grant fee that is charged without a log
logGrantFeeChargedSilently(st, payer, engine, seconds, perYearWei, fee) == st

logGrantFeeCharged(st, payer, engine, seconds, perYearWei, fee) ==
    EmitLog(st, EngineExecutePrecompile, Nil)

EngineReturn(st, al, err, out, obs) ==
    [st |-> st, al |-> al, err |-> err, out |-> out,
     obs |-> [obs EXCEPT !.logsAtReturn = st.logs]]

\* engineExecute.getNextPid
getNextPid(st, al, input) ==
    IF ~input.decodes THEN EngineReturn(st, al, "ErrInvalidInputData", NoOut, NoObs)
    ELSE LET stored == sloadU256(st, kNext(input.user))
             next == IF stored = 0 THEN 1 ELSE stored
         IN  EngineReturn(st, al, ErrNone, [NoOut EXCEPT !.value = next], NoObs)

\* the ENGINE_IS_PID_USED branch of engineExecute.run
isPidUsed(st, al, input) ==
    IF ~input.decodes THEN EngineReturn(st, al, "ErrInvalidInputData", NoOut, NoObs)
    ELSE EngineReturn(st, al, ErrNone,
            [NoOut EXCEPT !.success = pidUsed(st, input.user, input.pid)], NoObs)

\* engineExecute.billGrantsOnly
billGrantsOnly(st, al, input, caller) ==
    LET auth == authorizeEngineCaller(st, caller)
        b == billGrants(st, input.user, auth.engine, input.seconds, input.perYearWei)
    IN  IF ~auth.ok THEN EngineReturn(st, al, "ErrUnauthorizedCaller", NoOut, NoObs)
        ELSE IF ~input.decodes THEN EngineReturn(st, al, "ErrInvalidInputData", NoOut, NoObs)
        ELSE IF b.err # ErrNone THEN EngineReturn(st, al, b.err, NoOut, NoObs)
        ELSE EngineReturn(
                logGrantFeeCharged(b.st, input.user, auth.engine, input.seconds,
                                   input.perYearWei, b.fee),
                al, ErrNone, [NoOut EXCEPT !.value = b.fee], NoObs)

NoInput == [selector |-> "none", decodes |-> FALSE, zeros |-> 0, nonzeros |-> 0]

\* runtime.NewContractCall(depth, origin, from, to, value, gas, code, input)
NewContractCall(depth, origin, from, to, value, gas, codeLen, input) ==
    [type |-> "Call", depth |-> depth, origin |-> origin, caller |-> from, address |-> to,
     codeAddress |-> to, value |-> value, gas |-> gas, codeLen |-> codeLen, input |-> input]

\* runtime.NewContractCreation(depth, origin, from, to, value, gas, code)
NewContractCreation(depth, origin, from, to, value, gas, codeLen) ==
    [type |-> "Create", depth |-> depth, origin |-> origin, caller |-> from, address |-> to,
     codeAddress |-> to, value |-> value, gas |-> gas, codeLen |-> codeLen, input |-> NoInput]

\* an inner CALL for every call with a target, whatever its gas limit
innerCallToAnyTarget(call) == call.to # ZeroAddress

\* the condition under which engineExecute.run makes the inner CALL
innerCallAsked(call) == call.gasLimit > 0 /\ call.to # ZeroAddress

\* the ENGINE_EXECUTE branch of engineExecute.run
engineExecute(st, al, input, caller, ctx, oc) ==
    LET grant == input.grant
        call == input.call
        meta == input.meta
        fc == calcFee(input, grant, call, meta)
        auth == authorizeEngineCaller(st, caller)
        engine == auth.engine
        user == grant.from
        o0 == [NoObs EXCEPT !.ran = TRUE, !.authorized = auth.ok,
                            !.storedAtEntry = sloadU256(st, kNext(user)),
                            !.storedAtReturn = sloadU256(st, kNext(user))]
        \* grant billing
        b == billGrants(st, user, engine, call.grantFeeSeconds, call.grantFeePerYearWei)
        billed == IF call.grantFeeSeconds > 0
                  THEN logGrantFeeCharged(b.st, user, engine, call.grantFeeSeconds,
                                          call.grantFeePerYearWei, b.fee)
                  ELSE st
        \* price gating
        paidWeiPerGas == ctx.gasPrice
        maxFeePerGas == IF call.maxFeePerGas = 0 THEN paidWeiPerGas ELSE call.maxFeePerGas
        \* balance preflight
        worstWei == totalTxUnits(fc) * paidWeiPerGas
        grantFeeWei == IF call.grantFeeSeconds > 0
                       THEN GrantFeeWei(call.grantFeeSeconds, call.grantFeePerYearWei)
                       ELSE 0
        worstTotal == worstWei + call.valueWei + grantFeeWei
        \* settlement
        doCall == innerCallAsked(call)
        evmUnits == evmTxUnits(fc)
        totalUnits == totalTxUnits(fc)
        evmFeeRefund == evmUnits * paidWeiPerGas
        engineFeeWei == fc.validationGas * paidWeiPerGas
        totalPay == evmFeeRefund + engineFeeWei
        \* the transfer of the settlement on journal s3 and what follows it
        Paid(s2, s3, a3, success, o4, tr) ==
            LET o5 == [o4 EXCEPT !.innerCalled = doCall, !.innerOk = success,
                                 !.storedAtInner = sloadU256(s2, kNext(user)),
                                 !.totalPay = totalPay,
                                 !.transferErr = IF totalPay > 0 THEN tr.err ELSE Nil]
                s4 == IF totalPay > 0 THEN tr.st ELSE s3
                s5 == EmitLog(EmitLog(s4, EngineExecutePrecompile, "EngineMeta"),
                              EngineExecutePrecompile, "EngineExtrasV2")
                out == [success |-> success, totalUnits |-> totalUnits,
                        evmRefund |-> evmFeeRefund, engineFee |-> engineFeeWei, value |-> 0]
            IN  IF totalPay > 0 /\ tr.err # ErrNone
                THEN EngineReturn(s3, a3, tr.err, NoOut, o5)
                ELSE EngineReturn(s5, a3, ErrNone, out, o5)
        \* the inner CALL returned frame fr on journal s2
        Settle(s2, o4, fr) ==
            LET s3 == IF doCall THEN fr.st ELSE s2
            IN  Paid(s2, s3, IF doCall THEN fr.al ELSE al, doCall /\ ~Failed(fr.res), o4,
                     Transfer(s3, user, engine, totalPay))
        \* deadline, price gating and balance preflight on journal s2
        Gates(s2, o3) ==
            LET o4 == [o3 EXCEPT !.balanceAtPreflight = GetBalance(s2, user),
                                 !.worstTotal = worstTotal,
                                 !.preflight = IF GetBalance(s2, user) < worstTotal
                                               THEN "fail" ELSE "pass"]
                contract == NewContractCall(1, user, user, call.to, call.valueWei,
                                            call.gasLimit, GetCode(s2, call.to), NoInput)
            IN  IF call.deadline # 0 /\ ctx.timestamp > call.deadline
                THEN EngineReturn(s2, al, "ErrUnauthorizedCaller", NoOut, o3)
                ELSE IF paidWeiPerGas <= 0
                THEN EngineReturn(s2, al, "ErrInvalidInputData", NoOut, o3)
                ELSE IF call.maxFeePerGas # 0 /\ call.maxFeePerGas < ctx.baseFee
                THEN EngineReturn(s2, al, "ErrInvalidInputData", NoOut, o3)
                ELSE IF maxFeePerGas <= 0
                THEN EngineReturn(s2, al, "ErrInvalidInputData", NoOut, o3)
                ELSE IF call.to = ZeroAddress /\ call.gasLimit # 0
                THEN EngineReturn(s2, al, "ErrInvalidInputData", NoOut, o3)
                ELSE IF GetBalance(s2, user) < worstTotal
                THEN EngineReturn(s2, al, "ErrNotEnoughFunds", NoOut, o4)
                ELSE Settle(s2, o4, ApplyCall(s2, al, contract, "Call", ctx, oc.inner))
        \* monotone guard on journal s1, the counter read as curNext
        Guard(s1, o1, curNext) ==
            LET class == IF grant.sessionId > curNext THEN "reject"
                         ELSE IF grant.sessionId = curNext THEN "newRoot" ELSE "followUp"
                o2 == [o1 EXCEPT !.curNext = curNext, !.class = class]
                s2 == IF grant.sessionId = curNext
                      THEN sstoreU256(s1, kNext(user), grant.sessionId + 1)
                      ELSE s1
            IN  IF grant.sessionId > curNext
                THEN EngineReturn(s1, al, "ErrInvalidInputData", NoOut, o2)
                ELSE Gates(s2, [o2 EXCEPT !.wrote = (grant.sessionId = curNext),
                                          !.storedAtReturn = sloadU256(s2, kNext(user))])
        Billed(s1) ==
            Guard(s1, [o0 EXCEPT !.billed = call.grantFeeSeconds > 0, !.fee = b.fee],
                  IF sloadU256(s1, kNext(user)) = 0 THEN 1 ELSE sloadU256(s1, kNext(user)))
    IN  IF ~input.decodes THEN EngineReturn(st, al, "ErrInvalidInputData", NoOut, NoObs)
        ELSE IF ~auth.ok THEN EngineReturn(st, al, "ErrInvalidInputData", NoOut, o0)
        ELSE IF call.grantFeeSeconds > 0 /\ b.err # ErrNone
             THEN EngineReturn(st, al, b.err, NoOut, o0)
        ELSE Billed(billed)

\* engineExecute.run
engineRun(st, al, input, caller, ctx, oc) ==
    CASE input.selector = "short" -> EngineReturn(st, al, "ErrInvalidInputData", NoOut, NoObs)
      [] input.selector = "ENGINE_GET_NEXT_PID" -> getNextPid(st, al, input)
      [] input.selector = "ENGINE_IS_PID_USED" -> isPidUsed(st, al, input)
      [] input.selector = "BILL_GRANTS_ONLY" -> billGrantsOnly(st, al, input, caller)
      [] input.selector = "ENGINE_EXECUTE" -> engineExecute(st, al, input, caller, ctx, oc)
      [] OTHER -> EngineReturn(st, al, "ErrInvalidInputData", NoOut, NoObs)

\* Precompiled.Run: charge gas(input), run, and report a failed run with no gas left
PrecompiledRun(st, al, c, ctx, oc) ==
    LET gasCost == engineGas(c.input)
        Ran(r) == [st |-> r.st, al |-> r.al,
                   res |-> [gasLeft |-> IF r.err # ErrNone THEN 0 ELSE c.gas - gasCost,
                            gasUsed |-> 0, err |-> r.err, retLen |-> 0,
                            out |-> r.out, obs |-> r.obs]]
    IN  IF c.gas < gasCost
        THEN [st |-> st, al |-> al, res |-> ExecutionResult(0, "ErrOutOfGas")]
        ELSE Ran(engineRun(st, al, c.input, c.caller, ctx, oc))

-----------------------------------------------------------------------------
(* Transition.run, applyCall, applyCreate *)

NotAuth(st, al) == [st |-> st, al |-> al, res |-> ExecutionResult(0, "ErrNotAuth")]

\* Transition.run; no frame of the model targets a list contract, so
\* handleAllowBlockListsUpdate always returns nil
run(st, al, c, ctx, oc) ==
    IF cfg.txnAllowList.on /\ c.caller # SystemCaller
       /\ ~ListEnabled(cfg.txnAllowList, c.caller)
    THEN NotAuth(st, al)
    ELSE IF ~cfg.txnAllowList.on /\ cfg.txnBlockList.on /\ c.caller # SystemCaller
            /\ ListEnabled(cfg.txnBlockList, c.caller)
    THEN NotAuth(st, al)
    ELSE IF c.codeAddress = EngineExecutePrecompile
    THEN PrecompiledRun(st, al, c, ctx, oc)
    ELSE EvmRun(st, al, c, oc)

Frame(st, al, res, took, snapshot, accessListSnap) ==
    [st |-> st, al |-> al, res |-> res, took |-> took,
     snapshot |-> snapshot, accessListSnap |-> accessListSnap]

\* an applyCall that hands back what a failed run left behind
ApplyCallKeepsFailed(st, al, c, callType, ctx, oc) ==
    LET tr == Transfer(st, c.caller, c.address, c.value)
        Ran(r) == Frame(r.st, r.al, r.res, TRUE, Snapshot(st), Copy(al))
    IN  IF tr.err # ErrNone
        THEN Frame(st, al, ExecutionResult(c.gas, tr.err), TRUE, Snapshot(st), Copy(al))
        ELSE Ran(run(tr.st, al, c, ctx, oc))

ApplyCall(st, al, c, callType, ctx, oc) ==
    LET snapshot == Snapshot(st)
        hasALSnap == cfg.EIP2929 /\ al.on
        accessListSnap == Copy(al)
        reverted == IF hasALSnap THEN RevertTo(al, accessListSnap) ELSE al
        tr == IF callType = "Call"
              THEN Transfer(st, c.caller, c.address, c.value)
              ELSE [st |-> st, err |-> ErrNone]
        \* what applyCall does with the result r of run
        Ran(r) ==
            IF Failed(r.res)
            THEN Frame(RevertToSnapshot(r.st, snapshot),
                       IF hasALSnap THEN RevertTo(r.al, accessListSnap) ELSE r.al,
                       r.res, TRUE, snapshot, accessListSnap)
            ELSE Frame(r.st, r.al, r.res, TRUE, snapshot, accessListSnap)
    IN  IF c.depth > MaxCallDepth + 1
        THEN Frame(st, al, ExecutionResult(c.gas, "ErrDepth"), FALSE, st, al)
        ELSE IF tr.err # ErrNone
        THEN Frame(RevertToSnapshot(tr.st, snapshot), reverted,
                   ExecutionResult(c.gas, tr.err), TRUE, snapshot, accessListSnap)
        ELSE Ran(run(tr.st, al, c, ctx, oc))

\* a collision check that looks at the code only
hasCode(st, a) == GetCode(st, a) # 0

hasCodeOrNonce(st, a) == GetNonce(st, a) # 0 \/ GetCode(st, a) # 0

ApplyCreate(st, al, c, ctx, oc) ==
    LET gasLimit == c.gas
        s1 == IncrNonce(st, c.caller)
        snapshot == Snapshot(s1)
        hasALSnap == cfg.EIP2929 /\ al.on
        accessListSnap == Copy(al)
        Back(a) == IF hasALSnap THEN RevertTo(a, accessListSnap) ELSE a
        s2 == IF cfg.EIP158 THEN IncrNonce(CreateAccount(s1, c.address), c.address) ELSE s1
        tr == Transfer(s2, c.caller, c.address, c.value)
        Out(s, a, res) == Frame(s, a, res, TRUE, snapshot, accessListSnap)
        \* what applyCreate does with the result r of run
        Ran(r) ==
            LET gasCost == U64(r.res.retLen * 200)
            IN  IF Failed(r.res)
                THEN Out(RevertToSnapshot(r.st, snapshot), Back(r.al), r.res)
                ELSE IF cfg.EIP158 /\ r.res.retLen > SpuriousDragonMaxCodeSize
                THEN Out(RevertToSnapshot(r.st, snapshot), Back(r.al),
                         ExecutionResult(0, "ErrMaxCodeSizeExceeded"))
                ELSE IF r.res.gasLeft < gasCost
                THEN IF cfg.Homestead
                     THEN Out(RevertToSnapshot(r.st, snapshot), Back(r.al),
                              ExecutionResult(0, "ErrCodeStoreOutOfGas"))
                     ELSE Out(r.st, r.al, ExecutionResult(r.res.gasLeft, "ErrCodeStoreOutOfGas"))
                ELSE Out(SetCode(r.st, c.address, r.res.retLen), r.al,
                         [r.res EXCEPT !.gasLeft = @ - gasCost])
    IN  IF c.depth > MaxCallDepth + 1
        THEN Frame(st, al, ExecutionResult(gasLimit, "ErrDepth"), FALSE, st, al)
        ELSE IF hasCodeOrNonce(s1, c.address)
        THEN Frame(s1, al, ExecutionResult(0, "ErrContractAddressCollision"), FALSE, s1, al)
        ELSE IF cfg.EIP3860 /\ c.depth > 1 /\ c.codeLen > TxPoolMaxInitCodeSize
        THEN Out(s1, Back(al), ExecutionResult(0, "ErrOutOfGas"))
        ELSE IF tr.err # ErrNone
        THEN Out(tr.st, al, ExecutionResult(gasLimit, tr.err))
        ELSE IF cfg.deploymentAllowList.on /\ ~ListEnabled(cfg.deploymentAllowList, c.caller)
        THEN Out(tr.st, al, ExecutionResult(0, "ErrNotAuth"))
        ELSE IF ~cfg.deploymentAllowList.on /\ cfg.deploymentBlockList.on
                /\ ListEnabled(cfg.deploymentBlockList, c.caller)
        THEN Out(tr.st, al, ExecutionResult(0, "ErrNotAuth"))
        ELSE Ran(run(tr.st, al, c, ctx, oc))

\* a Callx that takes the transaction's own frame to be at depth 0
CallxFromDepthZero(st, al, c, ctx, oc) ==
    IF c.type = "Create" THEN ApplyCreate(st, al, [c EXCEPT !.depth = @ - 1], ctx, oc)
    ELSE ApplyCall(st, al, [c EXCEPT !.depth = @ - 1], c.type, ctx, oc)

\* Transition.Callx
Callx(st, al, c, ctx, oc) ==
    IF c.type = "Create" THEN ApplyCreate(st, al, c, ctx, oc)
    ELSE ApplyCall(st, al, c, c.type, ctx, oc)

-----------------------------------------------------------------------------
(* Transition: consensus gates, gas pool, fee split, receipts *)

TxGas == 21000
TxGasContractCreation == 53000
TxAccessListAddressGas == 2400
TxAccessListStorageKeyGas == 1900
MaxUint64 == U64Mod - 1
StateTransactionGasLimit == 100000
\* the fixed burn of 1000 Gwei, in units of 10^7 wei
BurnedFixed == 100000
DefaultDonationPercent == 15
\* the refund counter pays back at most gas_used / RefundQuotient
RefundQuotient == 5

IsContractCreation(msg) == msg.to = Nil

\* Transaction.GetGasPrice(baseFee)
GetGasPrice(msg, baseFee) ==
    IF msg.type = "DynamicFee"
    THEN IF msg.gasFeeCap < baseFee + msg.gasTipCap THEN msg.gasFeeCap
         ELSE baseFee + msg.gasTipCap
    ELSE msg.gasPrice

\* getUpfrontGasCost of the London fix handler
getUpfrontGasCost(msg, baseFee) == msg.gas * GetGasPrice(msg, baseFee)

\* checkDynamicFees of the London fix handler
checkDynamicFees(msg, baseFee) ==
    IF ~cfg.London THEN ErrNone
    ELSE IF msg.type = "DynamicFee" /\ msg.gasFeeCap < msg.gasTipCap THEN "ErrTipAboveFeeCap"
    ELSE IF msg.type = "DynamicFee" /\ msg.gasFeeCap < baseFee THEN "ErrFeeCapTooLow"
    ELSE ErrNone

\* ExecutionResult.UpdateGasUsed(gasLimit, refund)
UpdateGasUsed(res, gasLimit, refund) ==
    LET used == gasLimit - res.gasLeft
        maxRefund == used \div RefundQuotient
        applied == IF refund > maxRefund THEN maxRefund ELSE refund
    IN  [res EXCEPT !.gasLeft = res.gasLeft + applied, !.gasUsed = used - applied]

\* a count that takes every tuple to hold one storage key
SlotCountPerTuple(tuples) == Len(tuples)

RECURSIVE SlotCount(_)
SlotCount(tuples) ==
    IF tuples = <<>> THEN 0
    ELSE Len(Head(tuples).storageKeys) + SlotCount(Tail(tuples))

TransactionGasCost(msg, isHomestead, isIstanbul, isEIP3860, isEIP2930) ==
    LET base == IF IsContractCreation(msg) /\ isHomestead THEN TxGasContractCreation ELSE TxGas
        zeros == msg.input.zeros
        nonZeros == msg.input.nonzeros
        len == zeros + nonZeros
        nonZeroCost == IF isIstanbul THEN 16 ELSE 68
        overflowNZ == len > 0 /\ (MaxUint64 - base) \div nonZeroCost < nonZeros
        c1 == IF len > 0 THEN base + nonZeros * nonZeroCost ELSE base
        overflowZ == len > 0 /\ (MaxUint64 - c1) \div 4 < zeros
        c2 == IF len > 0 THEN c1 + zeros * 4 ELSE c1
        words == (len + 31) \div 32
        initCode == IsContractCreation(msg) /\ isEIP3860
        overflowW == initCode /\ (MaxUint64 - c2) \div 2 < words
        c3 == IF initCode THEN c2 + words * 2 ELSE c2
        typed == isEIP2930 /\ msg.type \in {"AccessList", "DynamicFee"}
        c4 == IF typed
              THEN U64(c3 + U64(Len(msg.accessList) * TxAccessListAddressGas)
                          + U64(SlotCount(msg.accessList) * TxAccessListStorageKeyGas))
              ELSE c3
    IN  IF overflowNZ \/ overflowZ \/ overflowW
        THEN [cost |-> 0, err |-> "ErrIntrinsicGasOverflow"]
        ELSE [cost |-> c4, err |-> ErrNone]

\* a nonce gate that only refuses nonces already used
nonceCheckNotBelow(st, msg) ==
    IF GetNonce(st, msg.from) > msg.nonce THEN "ErrNonceIncorrect" ELSE ErrNone

\* Transition.nonceCheck
nonceCheck(st, msg) == IF GetNonce(st, msg.from) # msg.nonce THEN "ErrNonceIncorrect" ELSE ErrNone

\* Transition.subGasLimitPrice
subGasLimitPrice(st, msg) ==
    LET upfrontGasCost == getUpfrontGasCost(msg, cfg.baseFee)
    IN  IF SubBalanceErr(st, msg.from, upfrontGasCost) # ErrNone
        THEN [st |-> st, err |-> "ErrNotEnoughFundsForGas"]
        ELSE [st |-> SubBalance(st, msg.from, upfrontGasCost), err |-> ErrNone]

checkAndProcessTx(st, msg) ==
    LET nc == nonceCheck(st, msg)
        df == checkDynamicFees(msg, cfg.baseFee)
        sub == subGasLimitPrice(st, msg)
        E(e) == [st |-> st, err |-> e]
    IN  IF msg.type = "AccessList" /\ ~cfg.EIP2930 THEN E("ErrTxTypeNotSupported")
        ELSE IF msg.type = "AccessList" /\ ~cfg.TxHashWithType THEN E("ErrTypedTxNotAllowed")
        ELSE IF msg.type \notin {"DynamicFee", "State"} /\ ~msg.hasGasPrice
        THEN E("ErrGasPriceNotSet")
        ELSE IF cfg.EIP3860 /\ IsContractCreation(msg)
                /\ msg.input.zeros + msg.input.nonzeros > TxPoolMaxInitCodeSize
        THEN E("ErrMaxInitCodeSizeExceeded")
        ELSE IF nc # ErrNone THEN E(nc)
        ELSE IF cfg.NonPayable THEN E(ErrNone)
        ELSE IF df # ErrNone THEN E(df)
        ELSE sub

\* a gate for State transactions that does not look at the sender
checkStateTxOfAnySender(msg) ==
    IF msg.gasPrice # 0 THEN "gasPrice of state transaction must be zero"
    ELSE IF msg.gas # StateTransactionGasLimit THEN "gas of state transaction must be fixed"
    ELSE IF msg.to = Nil \/ msg.to = ZeroAddress
    THEN "to of state transaction must be specified"
    ELSE ErrNone

checkAndProcessStateTx(msg) ==
    IF msg.gasPrice # 0 THEN "gasPrice of state transaction must be zero"
    ELSE IF msg.gas # StateTransactionGasLimit THEN "gas of state transaction must be fixed"
    ELSE IF msg.from # SystemCaller THEN "state transaction sender must be SystemCaller"
    ELSE IF msg.to = Nil \/ msg.to = ZeroAddress
    THEN "to of state transaction must be specified"
    ELSE ErrNone

\* a gas pool that is drawn on without looking at what is left
subGasPoolUnchecked(pool, amount) ==
    [pool |-> U64(pool - amount + U64Mod), err |-> ErrNone]

\* Transition.subGasPool
subGasPool(pool, amount) ==
    IF pool < amount THEN [pool |-> pool, err |-> "ErrBlockLimitReached"]
    ELSE [pool |-> pool - amount, err |-> ErrNone]

\* Transition.addGasPool
addGasPool(pool, amount) == U64(pool + amount)

\* the warm set of a transaction (EIP-2929), with its EIP-2930 tuples
AddTuples(al, tuples) ==
    [al EXCEPT
        !.addresses = @ \cup { tuples[i].address : i \in 1 .. Len(tuples) },
        !.slots = @ \cup UNION { { <<tuples[i].address, tuples[i].storageKeys[j]>> :
                                      j \in 1 .. Len(tuples[i].storageKeys) } :
                                 i \in 1 .. Len(tuples) }]

\* a warm set that holds the coinbase whatever the fork, and no tuple
InitAccessListOfShanghai(msg) ==
    IF cfg.EIP2929
    THEN NewAccessList({msg.from, Coinbase}
                       \cup (IF IsContractCreation(msg)
                             THEN {CreateAddress(msg.from, msg.nonce)}
                             ELSE {msg.to}))
    ELSE NilAccessList

InitAccessList(msg) ==
    IF cfg.EIP2929
    THEN LET init == {msg.from}
                     \cup (IF IsContractCreation(msg)
                           THEN {CreateAddress(msg.from, msg.nonce)}
                           ELSE {msg.to})
                     \cup (IF cfg.EIP3651 THEN {Coinbase} ELSE {})
             al == NewAccessList(init)
         IN  IF cfg.EIP2930 /\ Len(msg.accessList) > 0
             THEN AddTuples(al, msg.accessList)
             ELSE al
    ELSE NilAccessList

\* Transition.Create2
Create2(st, al, caller, codeLen, value, gas, ctx, oc) ==
    LET address == CreateAddress(caller, GetNonce(st, caller))
        contract == NewContractCreation(1, caller, caller, address, value, gas, codeLen)
    IN  ApplyCreate(st, al, contract, ctx, oc)

\* Transition.Call2
Call2(st, al, caller, to, input, value, gas, ctx, oc) ==
    LET c == NewContractCall(1, caller, caller, to, value, gas, GetCode(st, to), input)
    IN  ApplyCall(st, al, c, "Call", ctx, oc)

\* a donation configuration taken from the registry as it is stored
DonationConfigAsStored(st) ==
    IF cfg.EngineRegistryAddress # ZeroAddress /\ GetCode(st, cfg.EngineRegistryAddress) > 0
    THEN [addr |-> GetState(st, cfg.EngineRegistryAddress, "donationAddress"),
          percent |-> GetState(st, cfg.EngineRegistryAddress, "donationPercent")]
    ELSE [addr |-> DefaultDonationAddress, percent |-> DefaultDonationPercent]

\* the donation recipient and percent the fee split uses
DonationConfig(st) ==
    LET reg == cfg.EngineRegistryAddress
        regAddr == GetState(st, reg, "donationAddress")
        pct == GetState(st, reg, "donationPercent")
        percent == IF pct <= 100 THEN pct ELSE DefaultDonationPercent
    IN  IF reg # ZeroAddress /\ GetCode(st, reg) > 0
        THEN IF regAddr = ZeroAddress
             THEN [addr |-> DefaultDonationAddress, percent |-> 0]
             ELSE [addr |-> regAddr, percent |-> percent]
        ELSE [addr |-> DefaultDonationAddress, percent |-> DefaultDonationPercent]

\* a fee split whose burn is not clamped to the fee
FeeSplitUnclamped(gasUsed, gasPrice, donationPercent) ==
    LET totalFeeRaw == gasUsed * gasPrice
        totalFee == IF totalFeeRaw <= BurnedFixed THEN 0 ELSE totalFeeRaw - BurnedFixed
        donation == (totalFee * donationPercent) \div 100
    IN  [donation |-> donation, validator |-> totalFee - donation, burned |-> BurnedFixed]

\* a fee split whose donation is rounded up
FeeSplitRoundedUp(gasUsed, gasPrice, donationPercent) ==
    LET totalFeeRaw == gasUsed * gasPrice
        burnedApplied == IF totalFeeRaw <= BurnedFixed THEN totalFeeRaw ELSE BurnedFixed
        totalFee == totalFeeRaw - burnedApplied
        donation == (totalFee * donationPercent + 99) \div 100
    IN  [donation |-> donation, validator |-> totalFee - donation, burned |-> burnedApplied]

\* the fee split of apply: burn, donation, validator
FeeSplit(gasUsed, gasPrice, donationPercent) ==
    LET totalFeeRaw == gasUsed * gasPrice
        burnedApplied == IF totalFeeRaw <= BurnedFixed THEN totalFeeRaw ELSE BurnedFixed
        totalFee == IF totalFeeRaw <= BurnedFixed THEN 0 ELSE totalFeeRaw - BurnedFixed
        d0 == (totalFee * donationPercent) \div 100
        donation == IF d0 < 0 THEN 0 ELSE IF d0 > totalFee THEN totalFee ELSE d0
        v0 == totalFee - donation
        validator == IF v0 < 0 THEN 0 ELSE v0
    IN  [donation |-> donation, validator |-> validator, burned |-> burnedApplied]

NoFrame ==
    [entered |-> FALSE, type |-> Nil, took |-> FALSE, failed |-> FALSE, err |-> ErrNone,
     snapshot |-> Nil, accessListSnap |-> Nil, st |-> Nil, al |-> Nil, address |-> Nil]

\* Transition.apply
apply(st, al, pool, feesIn, msg, oc) ==
    LET sgp == subGasPool(pool, msg.gas)
        igc == TransactionGasCost(msg, cfg.Homestead, cfg.Istanbul, cfg.EIP3860, cfg.EIP2930)
        gasLeft == U64(msg.gas - igc.cost + U64Mod)
        gasPrice == GetGasPrice(msg, cfg.baseFee)
        ctx == [gasPrice |-> gasPrice, origin |-> msg.from, baseFee |-> cfg.baseFee,
                timestamp |-> cfg.timestamp]
        al1 == InitAccessList(msg)
        Rejected(s, p, e, gates) ==
            [err |-> e, st |-> s, al |-> al, pool |-> p, fees |-> feesIn,
             result |-> ExecutionResult(0, ErrNone), frame |-> NoFrame, gates |-> gates,
             gasPrice |-> 0]
        \* the fee split on journal s1, after the refund of the gas left
        Split(fr, result, s1, dc, split) ==
            LET s2 == IF split.donation > 0 THEN AddBalance(s1, dc.addr, split.donation) ELSE s1
                s3 == IF split.validator > 0 THEN AddBalance(s2, Coinbase, split.validator) ELSE s2
                s4 == IF split.burned > 0
                      THEN AddBalance(s3, DefaultBurnedAddress, split.burned) ELSE s3
            IN  [err |-> ErrNone, st |-> s4, al |-> fr.al,
                 pool |-> addGasPool(sgp.pool, result.gasLeft),
                 fees |-> split, result |-> result,
                 frame |-> [entered |-> TRUE,
                            type |-> IF IsContractCreation(msg) THEN "Create" ELSE "Call",
                            took |-> fr.took, failed |-> Failed(fr.res), err |-> fr.res.err,
                            snapshot |-> fr.snapshot, accessListSnap |-> fr.accessListSnap,
                            st |-> fr.st, al |-> fr.al,
                            address |-> IF IsContractCreation(msg)
                                        THEN CreateAddress(msg.from, msg.nonce) ELSE msg.to],
                 gates |-> TRUE, gasPrice |-> gasPrice]
        Refunded(fr, result, s1, dc) ==
            Split(fr, result, s1, dc, FeeSplit(result.gasUsed, gasPrice, dc.percent))
        \* the refund and the fees of the frame fr the transaction ran
        Settled(fr, result) ==
            Refunded(fr, result, AddBalance(fr.st, msg.from, result.gasLeft * gasPrice),
                     DonationConfig(AddBalance(fr.st, msg.from, result.gasLeft * gasPrice)))
        Executed(fr) == Settled(fr, UpdateGasUsed(fr.res, msg.gas, fr.st.refund))
        \* the gates passed on journal chk.st
        Checked(chk) ==
            IF chk.err # ErrNone THEN Rejected(chk.st, pool, chk.err, FALSE)
            ELSE IF sgp.err # ErrNone THEN Rejected(chk.st, sgp.pool, sgp.err, TRUE)
            ELSE IF igc.err # ErrNone THEN Rejected(chk.st, sgp.pool, igc.err, TRUE)
            ELSE IF gasLeft > msg.gas
            THEN Rejected(chk.st, sgp.pool, "ErrNotEnoughIntrinsicGas", TRUE)
            ELSE IF IsContractCreation(msg)
            THEN Executed(Create2(chk.st, al1, msg.from, msg.input.zeros + msg.input.nonzeros,
                                  msg.value, gasLeft, ctx, oc))
            ELSE Executed(Call2(IncrNonce(chk.st, msg.from), al1, msg.from, msg.to, msg.input,
                                msg.value, gasLeft, ctx, oc))
    IN  IF msg.type = "State"
        THEN Checked([st |-> st, err |-> checkAndProcessStateTx(msg)])
        ELSE Checked(checkAndProcessTx(st, msg))

\* an Apply that forgets to revert a rejected transaction
ApplyWithoutRevert(st, al, pool, feesIn, msg, oc) == apply(st, al, pool, feesIn, msg, oc)

\* Transition.Apply: a rejected transaction's journal is reverted to the snapshot
Apply(st, al, pool, feesIn, msg, oc) ==
    LET s == Snapshot(st)
        Applied(r) == IF r.err # ErrNone THEN [r EXCEPT !.st = RevertToSnapshot(r.st, s)] ELSE r
    IN  Applied(apply(st, al, pool, feesIn, msg, oc))

-----------------------------------------------------------------------------
(* Transition.Write and the block being executed *)

NoTx ==
    [type |-> "Legacy", from |-> ZeroAddress, to |-> ZeroAddress, nonce |-> 0, gas |-> 0,
     gasPrice |-> 0, hasGasPrice |-> FALSE, gasFeeCap |-> 0, gasTipCap |-> 0, value |-> 0,
     input |-> NoInput, accessList |-> <<>>]

\* a receipt whose cumulative gas forgets the receipts before it
ReceiptOwnGasOnly(txn, total, result, logs) ==
    [cumulativeGasUsed |-> result.gasUsed, type |-> txn.type, tx |-> txn,
     gasUsed |-> result.gasUsed,
     status |-> IF Failed(result) THEN "Failed" ELSE "Success",
     contractAddress |-> IF txn.to = Nil THEN CreateAddress(txn.from, txn.nonce) ELSE Nil,
     logs |-> logs]

\* the receipt Write assembles; tx stands for the receipt's TxHash
Receipt(txn, total, result, logs) ==
    [cumulativeGasUsed |-> total, type |-> txn.type, tx |-> txn,
     gasUsed |-> result.gasUsed,
     status |-> IF Failed(result) THEN "Failed" ELSE "Success",
     contractAddress |-> IF txn.to = Nil THEN CreateAddress(txn.from, txn.nonce) ELSE Nil,
     logs |-> logs]

\* what Write saw before it ran
Pre ==
    [state |-> state, accessList |-> accessList, gasPool |-> gasPool, totalGas |-> totalGas,
     receipts |-> Len(receipts), fees |-> fees]

\* Transition.Write
Write(txn, oc) ==
    LET Applied(r) ==
            LET total == U64(totalGas + r.result.gasUsed)
                \* LeftPadBytes(x.Bytes(), 32) of an amount below 2^32
                Padded(x) == [i \in 1 .. 32 |->
                                 IF i < 29 THEN 0 ELSE (x \div 256 ^ (32 - i)) % 256]
                logs == Append(r.st.logs,
                               [address |-> FeeSplitLogAddress, topic |-> "XGRFeeSplit",
                                data |-> Padded(r.fees.donation) \o Padded(r.fees.validator)
                                         \o Padded(r.fees.burned)])
            IN  /\ IF r.err # ErrNone
                   THEN /\ state' = r.st
                        /\ UNCHANGED <<totalGas, receipts>>
                   ELSE /\ state' = CleanDeleteObjects(ClearLogs(r.st))
                        /\ totalGas' = total
                        /\ receipts' = Append(receipts, Receipt(txn, total, r.result, logs))
                /\ accessList' = r.al
                /\ gasPool' = r.pool
                /\ fees' = r.fees
                /\ last' = [n |-> last.n + 1, op |-> "Write", tx |-> txn, err |-> r.err,
                            pre |-> Pre, gates |-> r.gates, frame |-> r.frame,
                            res |-> r.result, gasPrice |-> r.gasPrice]
                /\ UNCHANGED <<cfg, frames>>
    IN  /\ last.n < MaxTxs
        /\ Applied(Apply(state, accessList, gasPool, fees, txn, oc))

-----------------------------------------------------------------------------
(* The chain the block is executed on *)

NoList == [on |-> FALSE, enabled |-> {}]

\* every fork of the core active, no list runtime, no registry: bootstrap engine
OpenConfig ==
    [Homestead |-> TRUE, Istanbul |-> TRUE, London |-> TRUE, EIP158 |-> TRUE,
     EIP2929 |-> TRUE, EIP2930 |-> TRUE, EIP3651 |-> TRUE, EIP3860 |-> TRUE,
     TxHashWithType |-> TRUE, NonPayable |-> FALSE, baseFee |-> 2, timestamp |-> 100,
     EngineRegistryAddress |-> ZeroAddress, BootstrapEngineEOA |-> "engine",
     txnAllowList |-> NoList, txnBlockList |-> NoList,
     deploymentAllowList |-> NoList, deploymentBlockList |-> NoList]

\* the registry is deployed and the deployment allow list admits alice only
ListedConfig ==
    [OpenConfig EXCEPT !.EngineRegistryAddress = RegistryAddr,
                       !.BootstrapEngineEOA = ZeroAddress,
                       !.deploymentAllowList = [on |-> TRUE, enabled |-> {"alice"}],
                       !.txnBlockList = [on |-> TRUE, enabled |-> {"mallory"}]]

\* a chain before Berlin: no warm set, no typed transactions
LegacyConfig ==
    [OpenConfig EXCEPT !.EIP2929 = FALSE, !.EIP2930 = FALSE, !.EIP3651 = FALSE,
                       !.EIP3860 = FALSE, !.TxHashWithType = FALSE, !.London = FALSE]

\* a Transition serving a call that is not to change the state: SetNonPayable(true)
NonPayableConfig == [OpenConfig EXCEPT !.NonPayable = TRUE]

Configs == { OpenConfig, ListedConfig, LegacyConfig, NonPayableConfig }

InitBalance ==
    [a \in Addr |->
        CASE a = "alice" -> 3000000
          [] a = "bob" -> 120000
          [] a = "engine" -> 1000000
          [] a = "user1" -> 400000
          [] a = "user2" -> 5
          [] a = "user3" -> 61698
          [] a = "user4" -> 3000000
          [] OTHER -> 0]

\* the journal over the parent snapshot
Genesis(c) ==
    [balance |-> InitBalance,
     nonce |-> [a \in Addr |-> 0],
     code |-> [a \in Addr |->
                 IF a \in {"ctr", "target"} THEN 100
                 ELSE IF a = RegistryAddr /\ c.EngineRegistryAddress = RegistryAddr THEN 100
                 ELSE 0],
     storage |-> [k \in Slots |->
                    IF k = <<RegistryAddr, "donationAddress">>
                    THEN IF c.EngineRegistryAddress = RegistryAddr THEN "donee" ELSE ZeroAddress
                    ELSE IF c.EngineRegistryAddress # RegistryAddr THEN 0
                    ELSE IF k = <<RegistryAddr, AuthorizedEngineKey("engine")>> THEN 1
                    ELSE IF k = <<RegistryAddr, "donationPercent">> THEN 10
                    ELSE 0],
     logs |-> <<>>,
     refund |-> 0]

\* BeginTxn: a fresh Transition over the parent state
Init ==
    \E c \in Configs :
        /\ cfg = c
        /\ state = Genesis(c)
        /\ accessList = NilAccessList
        /\ gasPool = BlockGasLimit
        /\ totalGas = 0
        /\ receipts = <<>>
        /\ fees = [donation |-> 0, validator |-> 0, burned |-> 0]
        /\ frames = NoFrames
        /\ last = [n |-> 0, op |-> "BeginTxn", tx |-> NoTx, err |-> ErrNone,
                   pre |-> [state |-> Genesis(c), accessList |-> NilAccessList,
                            gasPool |-> BlockGasLimit, totalGas |-> 0, receipts |-> 0,
                            fees |-> [donation |-> 0, validator |-> 0, burned |-> 0]],
                   gates |-> FALSE, frame |-> NoFrame, res |-> ExecutionResult(0, ErrNone),
                   gasPrice |-> 0]

-----------------------------------------------------------------------------
(* Transactions offered to Write and outcomes of the interpreter *)

Payload(z, nz) == [selector |-> "none", decodes |-> FALSE, zeros |-> z, nonzeros |-> nz]

LegacyTx(from, to, value, gas, price, input) ==
    [type |-> "Legacy", from |-> from, to |-> to, nonce |-> 0, gas |-> gas,
     gasPrice |-> price, hasGasPrice |-> TRUE, gasFeeCap |-> 0, gasTipCap |-> 0,
     value |-> value, input |-> input, accessList |-> <<>>]

\* transactions whose nonce the sender takes from its account
Templates ==
    { LegacyTx("alice", "ctr", 5, 60000, 10, Payload(0, 0)),
      LegacyTx("alice", Nil, 7, 100000, 2, Payload(10, 10)),
      LegacyTx("bob", "target", 100000, 30000, 2, Payload(0, 0)),
      LegacyTx("bob", Nil, 100000, 55000, 2, Payload(0, 0)),
      LegacyTx("bob", Nil, 3, 55000, 2, Payload(0, 0)),
      [LegacyTx("alice", "ctr", 0, 60000, 10, Payload(0, 0)) EXCEPT
          !.type = "AccessList",
          !.accessList = << [address |-> "target", storageKeys |-> <<"slot1">>] >>],
      [LegacyTx("alice", "target", 1, 60000, 0, Payload(0, 0)) EXCEPT
          !.type = "DynamicFee", !.hasGasPrice = FALSE, !.gasFeeCap = 10, !.gasTipCap = 2],
      [LegacyTx("alice", "target", 1, 60000, 0, Payload(0, 0)) EXCEPT
          !.type = "DynamicFee", !.hasGasPrice = FALSE, !.gasFeeCap = 3, !.gasTipCap = 4],
      [LegacyTx(SystemCaller, "ctr", 0, StateTransactionGasLimit, 0, Payload(0, 0)) EXCEPT
          !.type = "State"],
      [LegacyTx("alice", "ctr", 0, 60000, 0, Payload(0, 0)) EXCEPT !.hasGasPrice = FALSE],
      LegacyTx("alice", "ctr", 0, 20000, 2, Payload(0, 0)),
      LegacyTx("alice", "ctr", 0, 150000, 2, Payload(0, 0)),
      LegacyTx("alice", "ctr", 0, 60000, 2, Payload(0, 70000)),
      LegacyTx("alice", Nil, 0, 100000, 2, Payload(50000, 0)),
      LegacyTx("mallory", "ctr", 0, 30000, 2, Payload(0, 0)) }

\* transactions replayed or sent ahead: the nonce is whatever the sender wrote
Replays ==
    { [LegacyTx("alice", "ctr", 5, 60000, 10, Payload(0, 0)) EXCEPT !.nonce = n] :
          n \in 0 .. MaxTxs - 1 }

TxPool(st) ==
    { [t EXCEPT !.nonce = GetNonce(st, t.from)] : t \in Templates } \cup Replays

Outcome(ok, gasUse, touch, refund, retLen) ==
    [ok |-> ok, gasUse |-> gasUse, sstore |-> touch, log |-> touch, warm |-> touch,
     refund |-> refund, retLen |-> retLen]

\* what the code of a called contract may do, and what init code may do
CallOutcomes ==
    { Outcome(TRUE, "half", TRUE, 0, 10),
      Outcome(FALSE, "half", TRUE, 0, 0),
      Outcome(TRUE, "all", TRUE, 20000, 0) }

CreateOutcomes ==
    { Outcome(TRUE, "half", TRUE, 0, 10),
      Outcome(FALSE, "half", TRUE, 0, 0),
      Outcome(TRUE, "half", FALSE, 0, 30000),
      Outcome(TRUE, "all", FALSE, 0, 10) }

Outcomes(txn) == IF IsContractCreation(txn) THEN CreateOutcomes ELSE CallOutcomes

Next ==
    \E txn \in TxPool(state) : \E oc \in Outcomes(txn) : Write(txn, oc)

Spec == Init /\ [][Next]_vars

-----------------------------------------------------------------------------
(* Transactions of the engine to the engine-execute precompile *)

Grant(user, sid) == [from |-> user, sessionId |-> sid, ostcIdLen |-> 4]

Meta ==
    [stepIdLen |-> 4, payloadLen |-> 10, apiSavesLen |-> 0, contractSavesLen |-> 0,
     extrasLen |-> 0]

\* an ExecCall with no fee cap, no deadline and no grant fee
ExecCall(to, gasLimit, valueWei, validationGas) ==
    [to |-> to, dataLen |-> 0, valueWei |-> valueWei, gasLimit |-> gasLimit,
     validationGas |-> validationGas, maxFeePerGas |-> 0, deadline |-> 0,
     grantFeeSeconds |-> 0, grantFeePerYearWei |-> 0]

EngineInput(selector, decodes, grant, call) ==
    [selector |-> selector, decodes |-> decodes, zeros |-> 100, nonzeros |-> 50,
     grant |-> grant, call |-> call, meta |-> Meta,
     user |-> grant.from, pid |-> grant.sessionId,
     seconds |-> call.grantFeeSeconds, perYearWei |-> call.grantFeePerYearWei]

Execute(grant, call) == EngineInput("ENGINE_EXECUTE", TRUE, grant, call)

ToTarget == ExecCall("target", 20000, 5, 1000)
LogOnly == ExecCall(ZeroAddress, 0, 0, 1000)
WithGrantFee == [LogOnly EXCEPT !.grantFeeSeconds = 10, !.grantFeePerYearWei = SecondsPerYear]

EngineInputs ==
    { Execute(Grant("user1", sid), ToTarget) : sid \in 1 .. 3 }
    \cup { Execute(Grant("user1", sid), LogOnly) : sid \in 0 .. 1 }
    \cup { Execute(Grant("user1", 1), WithGrantFee),
           Execute(Grant("user2", 1), WithGrantFee),
           Execute(Grant("user2", 1), LogOnly),
           Execute(Grant("user3", 1), WithGrantFee),
           Execute(Grant("user4", 1), [LogOnly EXCEPT !.validationGas = MaxUint64]),
           Execute(Grant("user1", 1), [LogOnly EXCEPT !.validationGas = MaxUint64]),
           Execute(Grant("user1", 1), [ToTarget EXCEPT !.validationGas = MaxUint64]),
           Execute(Grant("user4", 1), ExecCall("target", 20000, 850000, MaxUint64)),
           Execute(Grant("user1", 1), [LogOnly EXCEPT !.deadline = 1]),
           Execute(Grant("user1", 1), [WithGrantFee EXCEPT !.deadline = 1]),
           Execute(Grant("user1", 3), WithGrantFee),
           Execute(Grant("user1", 1), [LogOnly EXCEPT !.maxFeePerGas = 1]),
           Execute(Grant("user1", 1), ExecCall(ZeroAddress, 20000, 0, 1000)),
           Execute(Grant("user1", 1), ExecCall("target", 0, 0, 1000)),
           Execute(Grant("user1", 1), ExecCall("user1", 20000, 5, 1000)),
           EngineInput("ENGINE_EXECUTE", FALSE, Grant("user1", 1), LogOnly),
           EngineInput("ENGINE_GET_NEXT_PID", TRUE, Grant("user1", 1), LogOnly),
           EngineInput("ENGINE_IS_PID_USED", TRUE, Grant("user1", 1), LogOnly),
           EngineInput("BILL_GRANTS_ONLY", TRUE, Grant("user1", 1), WithGrantFee),
           EngineInput("BILL_GRANTS_ONLY", TRUE, Grant("user2", 1), WithGrantFee),
           EngineInput("short", FALSE, Grant("user1", 1), LogOnly) }

EngineTemplates ==
    { LegacyTx("engine", EngineExecutePrecompile, 0, 80000, 2, i) : i \in EngineInputs }
    \cup { LegacyTx("engine", EngineExecutePrecompile, 0, 80000, 10,
                    Execute(Grant("user1", 1), ToTarget)),
           LegacyTx("bob", EngineExecutePrecompile, 0, 50000, 2,
                    Execute(Grant("user1", 1), LogOnly)) }

EnginePool(st) == { [t EXCEPT !.nonce = GetNonce(st, t.from)] : t \in EngineTemplates }

\* the inner CALL's code, when the input asks for an inner CALL, may do what any
\* called code may do
EngineOutcomes(txn) ==
    { [inner |-> o] :
        o \in IF txn.input.call.gasLimit > 0 /\ txn.input.call.to # ZeroAddress
              THEN CallOutcomes
              ELSE { Outcome(TRUE, "none", FALSE, 0, 0) } }

NextEngine ==
    \E txn \in EnginePool(state) : \E oc \in EngineOutcomes(txn) : Write(txn, oc)

SpecEngine == Init /\ [][NextEngine]_vars

-----------------------------------------------------------------------------
(* Chains whose registry holds other donation settings *)

\* the genesis of ListedConfig with the registry's donation slots set to (addr, pct)
DonationGenesis(addr, pct) ==
    [Genesis(ListedConfig) EXCEPT
        !.storage[<<RegistryAddr, "donationAddress">>] = addr,
        !.storage[<<RegistryAddr, "donationPercent">>] = pct]

BeginTxn(c, genesis) ==
    /\ cfg = c
    /\ state = genesis
    /\ accessList = NilAccessList
    /\ gasPool = BlockGasLimit
    /\ totalGas = 0
    /\ receipts = <<>>
    /\ fees = [donation |-> 0, validator |-> 0, burned |-> 0]
    /\ frames = NoFrames
    /\ last = [n |-> 0, op |-> "BeginTxn", tx |-> NoTx, err |-> ErrNone,
               pre |-> [state |-> genesis, accessList |-> NilAccessList,
                        gasPool |-> BlockGasLimit, totalGas |-> 0, receipts |-> 0,
                        fees |-> [donation |-> 0, validator |-> 0, burned |-> 0]],
               gates |-> FALSE, frame |-> NoFrame, res |-> ExecutionResult(0, ErrNone),
               gasPrice |-> 0]

\* the registry's donationPercent slot is in range, at its ends, or out of range
InitFees ==
    \/ BeginTxn(OpenConfig, Genesis(OpenConfig))
    \/ \E addr \in {"donee", ZeroAddress} : \E pct \in { 0, 50, 100, 101 } :
          BeginTxn(ListedConfig, DonationGenesis(addr, pct))
    \/ BeginTxn(ListedConfig, [DonationGenesis("donee", 50) EXCEPT !.code[RegistryAddr] = 0])

\* fees below the fixed burn, equal to it and above it
FeeTemplates ==
    { LegacyTx("alice", "ctr", 0, 29000, 2, Payload(0, 0)),
      LegacyTx("alice", "ctr", 0, 29000, 4, Payload(0, 0)),
      LegacyTx("alice", "ctr", 1, 60001, 3, Payload(0, 0)),
      [LegacyTx(SystemCaller, "ctr", 0, StateTransactionGasLimit, 0, Payload(0, 0)) EXCEPT
          !.type = "State"] }

NextFees ==
    \E t \in FeeTemplates : \E oc \in CallOutcomes :
        Write([t EXCEPT !.nonce = GetNonce(state, t.from)], oc)

SpecFees == InitFees /\ [][NextFees]_vars

-----------------------------------------------------------------------------
(* Chains whose registry is unset, not deployed, paused, or lists other engines *)

\* a chain with the registry address configured and the given bootstrap engine
RegistryConfig(bootstrap) == [ListedConfig EXCEPT !.BootstrapEngineEOA = bootstrap]

\* the registry's code and its paused and authorizedEngines slots at genesis
RegistryGenesis(c, codeLen, paused, engines) ==
    [Genesis(c) EXCEPT
        !.code[RegistryAddr] = codeLen,
        !.storage[<<RegistryAddr, "paused">>] = paused,
        !.storage[<<RegistryAddr, AuthorizedEngineKey("engine")>>] =
            IF "engine" \in engines THEN 1 ELSE 0,
        !.storage[<<RegistryAddr, AuthorizedEngineKey("bob")>>] =
            IF "bob" \in engines THEN 1 ELSE 0]

InitRegistry ==
    \/ \E bootstrap \in {ZeroAddress, "engine"} :
          BeginTxn([OpenConfig EXCEPT !.BootstrapEngineEOA = bootstrap], Genesis(OpenConfig))
    \/ \E bootstrap \in {ZeroAddress, "bob"} :
          BeginTxn(RegistryConfig(bootstrap),
                   RegistryGenesis(RegistryConfig(bootstrap), 0, 0, {"engine"}))
    \/ \E paused \in {0, 1} : \E engines \in SUBSET {"engine", "bob"} :
          BeginTxn(RegistryConfig("bob"),
                   RegistryGenesis(RegistryConfig("bob"), 100, paused, engines))

\* one input of each selector, sent by the engine and by bob
RegistryTemplates ==
    { LegacyTx(from, EngineExecutePrecompile, 0, 50000, 2, i) :
        from \in {"engine", "bob"},
        i \in { Execute(Grant("user1", 1), LogOnly),
                EngineInput("ENGINE_EXECUTE", FALSE, Grant("user1", 1), LogOnly),
                EngineInput("ENGINE_GET_NEXT_PID", TRUE, Grant("user1", 1), LogOnly),
                EngineInput("ENGINE_IS_PID_USED", TRUE, Grant("user1", 1), LogOnly),
                EngineInput("BILL_GRANTS_ONLY", TRUE, Grant("user1", 1), WithGrantFee),
                EngineInput("short", FALSE, Grant("user1", 1), LogOnly) } }

NextRegistry ==
    \E t \in RegistryTemplates : \E oc \in EngineOutcomes(t) :
        Write([t EXCEPT !.nonce = GetNonce(state, t.from)], oc)

SpecRegistry == InitRegistry /\ [][NextRegistry]_vars

-----------------------------------------------------------------------------
(* Blocks on chains that have Berlin's warm set with and without EIP-3651 and
   EIP-2930, and on a chain before Berlin *)

InitWarm ==
    \E c \in { OpenConfig, [OpenConfig EXCEPT !.EIP3651 = FALSE],
               [OpenConfig EXCEPT !.EIP2930 = FALSE], LegacyConfig } :
        BeginTxn(c, Genesis(c))

SpecWarm == InitWarm /\ [][Next]_vars

-----------------------------------------------------------------------------
(* Transactions and frames at the edges of the gates: intrinsic gas, init-code
   size, State transactions, call depth *)

\* chains that lack one fork each
InitGates ==
    \E c \in { OpenConfig, [OpenConfig EXCEPT !.Homestead = FALSE],
               [OpenConfig EXCEPT !.Istanbul = FALSE],
               [OpenConfig EXCEPT !.EIP3860 = FALSE],
               [OpenConfig EXCEPT !.EIP2930 = FALSE] } :
        BeginTxn(c, Genesis(c))

\* an access list of addrs addresses, the first of which has keys storage keys
Tuples(addrs, keys) ==
    [i \in 1 .. addrs |->
        [address |-> "target",
         storageKeys |-> [j \in 1 .. (IF i = 1 THEN keys ELSE 0) |-> "slot1"]]]

\* the code of a running transaction calls Transition.Callx for the frame c
CallxStep(c, oc) ==
    LET Returned(fr) ==
            /\ state' = fr.st
            /\ accessList' = fr.al
            /\ last' = [n |-> last.n + 1, op |-> "Callx", tx |-> NoTx, err |-> ErrNone,
                        pre |-> Pre, gates |-> TRUE,
                        frame |-> [entered |-> TRUE, type |-> c.type, took |-> fr.took,
                                   failed |-> Failed(fr.res), err |-> fr.res.err,
                                   snapshot |-> fr.snapshot,
                                   accessListSnap |-> fr.accessListSnap,
                                   st |-> fr.st, al |-> fr.al, address |-> c.address,
                                   contract |-> c, oc |-> oc],
                        res |-> fr.res, gasPrice |-> 0]
    IN  /\ last.n < MaxTxs
        /\ accessList.on
        /\ Returned(Callx(state, accessList, c, 
                          [gasPrice |-> 2, origin |-> "alice", baseFee |-> cfg.baseFee,
                           timestamp |-> cfg.timestamp], oc))
        /\ UNCHANGED <<gasPool, totalGas, receipts, fees, cfg, frames>>

NextGates ==
    LET
        \* transactions sent with exactly their intrinsic gas, or one unit less; the
        \* last one carries an access list whose surcharge does not fit a gas word
        PaidToTheUnit ==
            { LegacyTx("alice", "ctr", 0, 0, 2, Payload(0, 0)),
              LegacyTx("alice", "ctr", 0, 0, 2, Payload(3, 2)),
              LegacyTx("alice", Nil, 0, 0, 2, Payload(40, 25)),
              [LegacyTx("alice", "ctr", 0, 0, 2, Payload(0, 0)) EXCEPT
                  !.type = "AccessList", !.accessList = Tuples(2, 3)],
              [LegacyTx("alice", "ctr", 0, 0, 0, Payload(0, 0)) EXCEPT
                  !.type = "DynamicFee", !.hasGasPrice = FALSE, !.gasFeeCap = 10, !.gasTipCap = 2,
                  !.accessList = Tuples(2, 3)],
              [LegacyTx("alice", "ctr", 0, 0, 0, Payload(0, 0)) EXCEPT
                  !.type = "DynamicFee", !.hasGasPrice = FALSE, !.gasFeeCap = 10, !.gasTipCap = 2,
                  !.accessList = Tuples(1, (U64Mod \div TxAccessListStorageKeyGas) + 1)] }

        \* a payload too long for a gas word, init code at and above the size limit,
        \* and State transactions that break one rule each
        AtTheGates ==
            { LegacyTx("alice", "ctr", 0, 100000, 2, Payload(0, U64Mod \div 16)),
              LegacyTx("alice", Nil, 0, 100000, 2, Payload(TxPoolMaxInitCodeSize, 0)),
              LegacyTx("alice", Nil, 0, 100000, 2, Payload(TxPoolMaxInitCodeSize + 1, 0)) }
            \cup { [LegacyTx(SystemCaller, "ctr", 0, StateTransactionGasLimit, 0, Payload(0, 0))
                       EXCEPT !.type = "State"],
                   [LegacyTx(SystemCaller, "ctr", 0, StateTransactionGasLimit, 1, Payload(0, 0))
                       EXCEPT !.type = "State"],
                   [LegacyTx(SystemCaller, "ctr", 0, StateTransactionGasLimit - 1, 0, Payload(0, 0))
                       EXCEPT !.type = "State"],
                   [LegacyTx("alice", "ctr", 0, StateTransactionGasLimit, 0, Payload(0, 0))
                       EXCEPT !.type = "State"],
                   [LegacyTx(SystemCaller, Nil, 0, StateTransactionGasLimit, 0, Payload(0, 0))
                       EXCEPT !.type = "State"],
                   [LegacyTx(SystemCaller, ZeroAddress, 0, StateTransactionGasLimit, 0, Payload(0, 0))
                       EXCEPT !.type = "State"] }
    IN
        \/ \E t \in PaidToTheUnit : \E short \in {0, 1} :
              Write([t EXCEPT
                        !.nonce = GetNonce(state, t.from),
                        !.gas = TransactionGasCost(t, cfg.Homestead, cfg.Istanbul,
                                                   cfg.EIP3860, cfg.EIP2930).cost - short],
                    Outcome(TRUE, "half", TRUE, 0, 10))
        \/ \E t \in AtTheGates :
              Write([t EXCEPT !.nonce = GetNonce(state, t.from)],
                    Outcome(TRUE, "half", TRUE, 0, 10))
        \/ \E depth \in { 2, MaxCallDepth, MaxCallDepth + 1, MaxCallDepth + 2 } :
              CallxStep(NewContractCall(depth, "alice", "ctr", "target", 1, 30000,
                                        GetCode(state, "target"), NoInput),
                        Outcome(TRUE, "half", TRUE, 0, 10))
        \/ \E depth \in { 2, MaxCallDepth + 1, MaxCallDepth + 2 } :
           \E codeLen \in { TxPoolMaxInitCodeSize, TxPoolMaxInitCodeSize + 1 } :
              CallxStep(NewContractCreation(depth, "alice", "ctr",
                                            CreateAddress("ctr", GetNonce(state, "ctr")),
                                            0, 30000, codeLen),
                        Outcome(TRUE, "half", TRUE, 0, 10))
        \* a CREATE of alice with every outcome init code may have
        \/ \E oc \in CreateOutcomes :
              CallxStep(NewContractCreation(2, "alice", "alice",
                                            CreateAddress("alice", GetNonce(state, "alice")),
                                            1, 30000, 100),
                        oc)
        \* a CREATE2 of alice onto a contract, or onto the address of her first
        \* creation, within and beyond the depth limit
        \/ \E depth \in { 2, MaxCallDepth + 2 } :
           \E to \in { "target", CreateAddress("alice", 0) } :
              CallxStep(NewContractCreation(depth, "alice", "alice", to, 1, 30000, 100),
                        Outcome(TRUE, "half", TRUE, 0, 10))

SpecGates == InitGates /\ [][NextGates]_vars

-----------------------------------------------------------------------------
(* Executor.WriteGenesis on a fresh state.  Go iterates over the allocation map
   and over every storage map in an order of its own choosing: order is the
   order the accounts come in, keyOrder the order the storage keys come in.
   A balance is a pointer: <<>> is the nil pointer, <<b>> points to b. *)

\* a WriteGenesis that writes the storage of the first account it meets and of
\* no other
WriteGenesisFirstStorageOnly(st, alloc, order, keyOrder) ==
    LET Account(addr, first) ==
            [balance |-> [a \in Addr |-> 0], nonce |-> [a \in Addr |-> 0],
             code |-> [a \in Addr |-> 0],
             storage |-> [k \in Slots |->
                             IF first /\ k[1] = addr /\ k[2] \in DOMAIN alloc[addr].storage
                             THEN alloc[addr].storage[k[2]] ELSE 0]]
        Of(a) == IF a \in DOMAIN alloc THEN alloc[a] ELSE [balance |-> <<>>, nonce |-> 0, code |-> 0]
    IN  [st EXCEPT
            !.balance = [a \in Addr |-> IF Of(a).balance = <<>> THEN 0 ELSE Of(a).balance[1]],
            !.nonce = [a \in Addr |-> Of(a).nonce],
            !.code = [a \in Addr |-> Of(a).code],
            !.storage = IF order = <<>> THEN st.storage
                        ELSE Account(order[1], TRUE).storage]

\* the loop of WriteGenesis over the allocations
RECURSIVE WriteGenesis(_, _, _, _)
WriteGenesis(st, alloc, order, keyOrder) ==
    IF order = <<>> THEN st
    ELSE LET addr == Head(order)
             account == alloc[addr]
             s1 == IF account.balance # <<>> THEN AddBalance(st, addr, account.balance[1]) ELSE st
             s2 == IF account.nonce # 0 THEN [s1 EXCEPT !.nonce[addr] = account.nonce] ELSE s1
             s3 == IF account.code # 0 THEN SetCode(s2, addr, account.code) ELSE s2
             RECURSIVE Stored(_, _)
             Stored(s, keys) ==
                 IF keys = <<>> THEN s
                 ELSE Stored(IF Head(keys) \in DOMAIN account.storage
                             THEN SetState(s, addr, Head(keys), account.storage[Head(keys)])
                             ELSE s,
                             Tail(keys))
         IN  WriteGenesis(Stored(s3, keyOrder), alloc, Tail(order), keyOrder)

\* a fresh state and an allocation for a contract, for the registry, or for both
InitGenesis ==
    \E accounts \in (SUBSET {"ctr", RegistryAddr}) \ {{}} :
    \E alloc \in [accounts ->
                    [balance : {<<>>, <<0>>, <<7>>}, nonce : {0, 1}, code : {0, 100},
                     storage : { <<>>, "slot1" :> 5, "donationPercent" :> 0,
                                 ("paused" :> 1) @@ ("donationPercent" :> 20) }]] :
        /\ \A a \in accounts : \A k \in DOMAIN alloc[a].storage : <<a, k>> \in Slots
        /\ cfg = OpenConfig
        /\ state = [balance |-> [a \in Addr |-> 0], nonce |-> [a \in Addr |-> 0],
                    code |-> [a \in Addr |-> 0], storage |-> [k \in Slots |-> 0],
                    logs |-> <<>>, refund |-> 0]
        /\ accessList = NilAccessList
        /\ gasPool = 0
        /\ totalGas = 0
        /\ receipts = <<>>
        /\ fees = [donation |-> 0, validator |-> 0, burned |-> 0]
        /\ frames = NoFrames
        /\ last = [n |-> 0, op |-> "NewExecutor", alloc |-> alloc, order |-> <<>>,
                   keyOrder |-> <<>>, fresh |-> state]

SpecGenesis ==
    InitGenesis
    /\ [][\E order \in [1 .. Cardinality(DOMAIN last.alloc) -> DOMAIN last.alloc] :
          \E keyOrder \in [1 .. 3 -> {"slot1", "paused", "donationPercent"}] :
              /\ \A i, j \in DOMAIN order : order[i] = order[j] => i = j
              /\ \A i, j \in DOMAIN keyOrder : keyOrder[i] = keyOrder[j] => i = j
              /\ last.op = "NewExecutor"
              /\ state' = WriteGenesis(state, last.alloc, order, keyOrder)
              /\ last' = [last EXCEPT !.n = 1, !.op = "WriteGenesis", !.order = order,
                                      !.keyOrder = keyOrder]
              /\ UNCHANGED <<accessList, gasPool, totalGas, receipts, fees, cfg, frames>>]_vars

-----------------------------------------------------------------------------
(* The wire format of a transaction.  A byte is a number in 0 .. 255, a byte
   string a sequence of bytes.  An RLP item is a byte string
   [list |-> FALSE, b |-> bytes, items |-> <<>>] or a list of items
   [list |-> TRUE, b |-> <<>>, items |-> the items].  An address is 20 bytes,
   a storage key 32 bytes, a nil recipient the empty byte string. *)

\* the shortest big-endian byte string of a number, empty for 0
RECURSIVE BigEndian(_)
BigEndian(n) ==
    IF n = 0 THEN <<>> ELSE BigEndian(n \div 256) \o <<n % 256>>

\* the number a big-endian byte string stands for
RECURSIVE FromBigEndian(_)
FromBigEndian(b) ==
    IF b = <<>> THEN 0 ELSE 256 * FromBigEndian(SubSeq(b, 1, Len(b) - 1)) + b[Len(b)]

\* an encoder that knows the one-byte length headers only
RECURSIVE EncodeRLPShortHeaders(_)
EncodeRLPShortHeaders(item) ==
    LET RECURSIVE Joined(_)
        Joined(items) ==
            IF items = <<>> THEN <<>>
            ELSE EncodeRLPShortHeaders(Head(items)) \o Joined(Tail(items))
        Headed(base, body) == <<base + (Len(body) % 56)>> \o body
    IN  IF item.list THEN Headed(192, Joined(item.items))
        ELSE IF Len(item.b) = 1 /\ item.b[1] < 128 THEN item.b
        ELSE Headed(128, item.b)

\* the RLP encoding of an item
RECURSIVE EncodeRLP(_)
EncodeRLP(item) ==
    LET RECURSIVE Joined(_)
        Joined(items) ==
            IF items = <<>> THEN <<>>
            ELSE EncodeRLP(Head(items)) \o Joined(Tail(items))
        Headed(base, body) ==
            IF Len(body) <= 55 THEN <<base + Len(body)>> \o body
            ELSE <<base + 55 + Len(BigEndian(Len(body)))>> \o BigEndian(Len(body)) \o body
    IN  IF item.list THEN Headed(192, Joined(item.items))
        ELSE IF Len(item.b) = 1 /\ item.b[1] < 128 THEN item.b
        ELSE Headed(128, item.b)

\* the first item of raw and the bytes after it; ok is FALSE when raw is cut short
RECURSIVE DecodeRLP(_)
DecodeRLP(raw) ==
    LET Bad == [ok |-> FALSE, item |-> [list |-> FALSE, b |-> <<>>, items |-> <<>>], rest |-> <<>>]
        RECURSIVE Items(_)
        \* the items of a list's body, <<Bad>> for a body that does not parse
        Items(body) ==
            IF body = <<>> THEN <<>>
            ELSE LET Next1(d) == IF ~d.ok THEN <<Bad>> ELSE <<d>> \o Items(d.rest)
                 IN  Next1(DecodeRLP(body))
        Body(isList, start, len) ==
            IF Len(raw) < start + len - 1 THEN Bad
            ELSE LET body == SubSeq(raw, start, start + len - 1)
                     rest == SubSeq(raw, start + len, Len(raw))
                     Listed(ds) ==
                         IF \E i \in DOMAIN ds : ~ds[i].ok THEN Bad
                         ELSE [ok |-> TRUE,
                               item |-> [list |-> TRUE, b |-> <<>>,
                                         items |-> [i \in DOMAIN ds |-> ds[i].item]],
                               rest |-> rest]
                 IN  IF isList THEN Listed(Items(body))
                     ELSE [ok |-> TRUE, item |-> [list |-> FALSE, b |-> body, items |-> <<>>],
                           rest |-> rest]
        Long(isList, lenOfLen) ==
            IF Len(raw) < 1 + lenOfLen THEN Bad
            ELSE Body(isList, 2 + lenOfLen, FromBigEndian(SubSeq(raw, 2, 1 + lenOfLen)))
    IN  IF raw = <<>> THEN Bad
        ELSE IF raw[1] < 128 THEN Body(FALSE, 1, 1)
        ELSE IF raw[1] <= 183 THEN Body(FALSE, 2, raw[1] - 128)
        ELSE IF raw[1] <= 191 THEN Long(FALSE, raw[1] - 183)
        ELSE IF raw[1] <= 247 THEN Body(TRUE, 2, raw[1] - 192)
        ELSE Long(TRUE, raw[1] - 247)

\* Transaction.MarshalRLP: the legacy list, or the type byte and the payload
\* list of a typed transaction
MarshalRLP(tx) ==
    LET B(b) == [list |-> FALSE, b |-> b, items |-> <<>>]
        L(items) == [list |-> TRUE, b |-> <<>>, items |-> items]
        N(n) == B(BigEndian(n))
        tuples ==
            L([i \in DOMAIN tx.accessList |->
                  L(<<B(tx.accessList[i].address),
                      L([j \in DOMAIN tx.accessList[i].storageKeys |->
                            B(tx.accessList[i].storageKeys[j])])>>)])
        tail == <<N(tx.gas), B(tx.to), N(tx.value), B(tx.input)>>
        sig == <<N(tx.v), N(tx.r), N(tx.s)>>
    IN  IF tx.type = "Legacy"
        THEN EncodeRLP(L(<<N(tx.nonce), N(tx.gasPrice)>> \o tail \o sig))
        ELSE IF tx.type = "AccessList"
        THEN <<1>> \o EncodeRLP(L(<<N(tx.chainID), N(tx.nonce), N(tx.gasPrice)>>
                                  \o tail \o <<tuples>> \o sig))
        ELSE <<2>> \o EncodeRLP(L(<<N(tx.chainID), N(tx.nonce), N(tx.gasTipCap), N(tx.gasFeeCap)>>
                                  \o tail \o <<tuples>> \o sig))

\* Transaction.UnmarshalRLP into a zero Transaction: the type from the first
\* byte, the fields from the payload list, an error for a payload of the
\* wrong shape
UnmarshalRLP(raw) ==
    LET Zero == [type |-> "Legacy", chainID |-> 0, nonce |-> 0, gasPrice |-> 0,
                 gasTipCap |-> 0, gasFeeCap |-> 0, gas |-> 0, to |-> <<>>,
                 from |-> [i \in 1 .. 20 |-> 0], value |-> 0, input |-> <<>>,
                 accessList |-> <<>>, v |-> 0, r |-> 0, s |-> 0]
        Refused == [err |-> "decode error", tx |-> Zero]
        type == IF raw = <<>> THEN "none"
                ELSE IF raw[1] >= 192 THEN "Legacy"
                ELSE IF raw[1] = 1 THEN "AccessList"
                ELSE IF raw[1] = 2 THEN "DynamicFee"
                ELSE "none"
        count == IF type = "Legacy" THEN 9 ELSE IF type = "AccessList" THEN 11 ELSE 12
        TupleOk(t) ==
            /\ t.list /\ Len(t.items) = 2
            /\ ~t.items[1].list /\ Len(t.items[1].b) = 20
            /\ t.items[2].list
            /\ \A j \in DOMAIN t.items[2].items :
                  ~t.items[2].items[j].list /\ Len(t.items[2].items[j].b) = 32
        Fields(e, at) ==
            \* at: where the gas is; the access list, if any, is 4 items on
            LET n(i) == FromBigEndian(e[i].b)
                al == IF type = "Legacy" THEN <<>> ELSE e[at + 4].items
                sig == IF type = "Legacy" THEN at + 4 ELSE at + 5
            IN  IF \/ \E i \in (DOMAIN e) \ (IF type = "Legacy" THEN {} ELSE {at + 4}) : e[i].list
                   \/ type # "Legacy" /\ ~e[at + 4].list
                   \/ Len(e[at + 1].b) \notin {0, 20}
                   \/ \E i \in DOMAIN al : ~TupleOk(al[i])
                THEN Refused
                ELSE [err |-> "none",
                      tx |-> [Zero EXCEPT
                                !.type = type,
                                !.chainID = IF type = "Legacy" THEN 0 ELSE n(1),
                                !.nonce = n(at - (IF type = "DynamicFee" THEN 3 ELSE 2)),
                                !.gasPrice = IF type = "DynamicFee" THEN 0 ELSE n(at - 1),
                                !.gasTipCap = IF type = "DynamicFee" THEN n(at - 2) ELSE 0,
                                !.gasFeeCap = IF type = "DynamicFee" THEN n(at - 1) ELSE 0,
                                !.gas = n(at),
                                !.to = e[at + 1].b,
                                !.value = n(at + 2),
                                !.input = e[at + 3].b,
                                !.accessList =
                                    [i \in DOMAIN al |->
                                        [address |-> al[i].items[1].b,
                                         storageKeys |->
                                            [j \in DOMAIN al[i].items[2].items |->
                                                al[i].items[2].items[j].b]]],
                                !.v = n(sig), !.r = n(sig + 1), !.s = n(sig + 2)]]
        Parsed(d) ==
            IF ~d.ok \/ d.rest # <<>> \/ ~d.item.list \/ Len(d.item.items) # count THEN Refused
            ELSE Fields(d.item.items, count - (IF type = "Legacy" THEN 6 ELSE 7))
    IN  IF type = "none" THEN Refused
        ELSE Parsed(DecodeRLP(IF type = "Legacy" THEN raw ELSE Tail(raw)))

\* a transaction of one of the three types, not yet marshalled
InitRLP ==
    /\ \E type \in {"Legacy", "AccessList", "DynamicFee"}, chainID \in {1, 300},
          nonce \in {0, 1}, hasTo \in BOOLEAN, value \in {0, 128}, sender \in {0, 34},
          input \in {<<>>, <<0>>, <<170, 187>>}, tuples \in 0 .. 2, r \in {2, 70000} :
          LET Address(n) == [i \in 1 .. 20 |-> IF i = 20 THEN n ELSE 0]
              Hash(n) == [i \in 1 .. 32 |-> IF i = 32 THEN n ELSE 0]
              al == <<[address |-> Address(51), storageKeys |-> <<Hash(1), Hash(2)>>],
                      [address |-> Address(68), storageKeys |-> <<>>]>>
          IN  /\ type = "Legacy" => chainID = 1 /\ tuples = 0
              /\ last = [n |-> 0, op |-> "Transaction", err |-> "none", raw |-> <<>>,
                         tx |-> [type |-> type,
                                 chainID |-> IF type = "Legacy" THEN 0 ELSE chainID,
                                 nonce |-> nonce,
                                 gasPrice |-> IF type = "DynamicFee" THEN 0 ELSE 7,
                                 gasTipCap |-> IF type = "DynamicFee" THEN 2 ELSE 0,
                                 gasFeeCap |-> IF type = "DynamicFee" THEN 9 ELSE 0,
                                 gas |-> 21000,
                                 to |-> IF hasTo THEN Address(17) ELSE <<>>,
                                 from |-> Address(sender), value |-> value, input |-> input,
                                 accessList |-> SubSeq(al, 3 - tuples, 2),
                                 v |-> IF type = "Legacy" THEN 27 ELSE 1, r |-> r, s |-> 3],
                         got |-> [type |-> "Legacy"]]
    /\ cfg = OpenConfig
    /\ state = Genesis(OpenConfig)
    /\ accessList = NilAccessList
    /\ gasPool = 0
    /\ totalGas = 0
    /\ receipts = <<>>
    /\ fees = [donation |-> 0, validator |-> 0, burned |-> 0]
    /\ frames = NoFrames

\* the transaction is marshalled and the bytes are unmarshalled
SpecRLP ==
    /\ InitRLP
    /\ [][/\ \/ /\ last.op = "Transaction"
                /\ last' = [last EXCEPT !.n = 1, !.op = "MarshalRLP", !.raw = MarshalRLP(last.tx)]
             \/ /\ last.op = "MarshalRLP"
                /\ LET Unmarshalled(u) ==
                           last' = [last EXCEPT !.n = 2, !.op = "UnmarshalRLP",
                                                !.err = u.err, !.got = u.tx]
                   IN  Unmarshalled(UnmarshalRLP(last.raw))
          /\ UNCHANGED <<state, accessList, gasPool, totalGas, receipts, fees, cfg, frames>>]_vars

-----------------------------------------------------------------------------
(* The frames of one transaction, step by step.  Go shares maps by reference:
   frames.maps holds the pairs of maps (addresses, slots) allocated so far,
   frames.live the pair Transition.ctx.AccessList points at, and each open
   frame the pair its accessListSnap points at, next to what the list held
   when the frame was entered and what the frame has warmed since. *)

\* frames nested in one another
MaxDepth == 3
\* pairs of maps allocated during the transaction
MaxMaps == 4

\* a Copy whose snapshot points at the maps of the list itself
CopyMapsShared(fr) ==
    [maps |-> Append(fr.maps, Copy(fr.maps[fr.live])), ref |-> fr.live]

\* AccessList.Copy: fresh maps that hold what the maps of the list hold
CopyMaps(fr) ==
    [maps |-> Append(fr.maps, Copy(fr.maps[fr.live])), ref |-> Len(fr.maps) + 1]

\* a RevertTo that leaves the list pointing where it did
RevertToMapsSkipped(fr, snapshot) == fr.live

\* AccessList.RevertTo: the list points at the maps of the snapshot from now on
RevertToMaps(fr, snapshot) == snapshot

\* apply has made the access list of a call from alice to ctr; ctr is about to run
InitFrames ==
    \E c \in { OpenConfig, [OpenConfig EXCEPT !.Homestead = FALSE] } :
        /\ cfg = c
        /\ state = Genesis(c)
        /\ accessList = NilAccessList
        /\ gasPool = BlockGasLimit
        /\ totalGas = 0
        /\ receipts = <<>>
        /\ fees = [donation |-> 0, validator |-> 0, burned |-> 0]
        /\ frames = [NoFrames EXCEPT !.maps = << NewAccessList({"alice", "ctr"}) >>,
                                     !.live = 1]
        /\ last = [n |-> 0, op |-> "apply", tx |-> NoTx, err |-> ErrNone,
                   pre |-> [state |-> Genesis(c), accessList |-> NilAccessList,
                            gasPool |-> BlockGasLimit, totalGas |-> 0, receipts |-> 0,
                            fees |-> [donation |-> 0, validator |-> 0, burned |-> 0]],
                   gates |-> TRUE, frame |-> NoFrame, res |-> ExecutionResult(0, ErrNone),
                   gasPrice |-> 0]

\* applyCall and applyCreate down to their snapshot of the access list; the
\* transaction opens one frame, every other frame is opened by the code of a frame
EnterFrame(type) ==
    LET depth == Len(frames.open)
        callers == IF depth = 0 THEN frames.open
                   ELSE [frames.open EXCEPT ![depth].ran = TRUE]
        Entered(c) ==
            frames' = [frames EXCEPT
                          !.maps = c.maps,
                          !.open = Append(callers,
                                          [type |-> type, snap |-> c.ref,
                                           entry |-> frames.maps[frames.live],
                                           warmed |-> NilAccessList, ran |-> FALSE])]
    IN  /\ cfg.EIP2929
        /\ depth < MaxDepth
        /\ Len(frames.maps) < MaxMaps
        /\ depth = 0 => Len(frames.maps) = 1
        /\ Entered(CopyMaps(frames))
        /\ UNCHANGED <<state, accessList, gasPool, totalGas, receipts, fees, cfg, last>>

\* the code of the innermost frame warms an address (slot = Nil) or a slot
Touch(a, slot) ==
    LET depth == Len(frames.open)
        Warm(al) == IF slot = Nil THEN AddAddress(al, a) ELSE AddSlot(al, a, slot)
    IN  /\ depth > 0
        /\ frames' = [frames EXCEPT !.maps[frames.live] = Warm(@),
                                    !.open[depth].warmed = Warm(@),
                                    !.open[depth].ran = TRUE]
        /\ UNCHANGED <<state, accessList, gasPool, totalGas, receipts, fees, cfg, last>>

\* the innermost frame returns err to its caller.  ErrNotEnoughFunds is the
\* failed Transfer, before any code has run; ErrCodeStoreOutOfGas is a creation
\* that cannot pay for its code; ErrExecutionReverted is any failed run
ReturnFrame(err) ==
    LET depth == Len(frames.open)
        top == frames.open[depth]
        restores == CASE err = ErrNone -> FALSE
                      [] err = "ErrNotEnoughFunds" -> top.type = "Call"
                      [] err = "ErrCodeStoreOutOfGas" -> cfg.Homestead
                      [] OTHER -> TRUE
        callers == SubSeq(frames.open, 1, depth - 1)
        Returned(live) ==
            frames' = [frames EXCEPT
                          !.live = live,
                          !.open = IF err = ErrNone /\ depth > 1
                                   THEN [callers EXCEPT ![depth - 1].warmed =
                                            [@ EXCEPT !.addresses = @ \cup top.warmed.addresses,
                                                      !.slots = @ \cup top.warmed.slots]]
                                   ELSE callers,
                          !.ret = [type |-> top.type, depth |-> depth, err |-> err,
                                   snap |-> top.snap,
                                   entry |-> top.entry, warmed |-> top.warmed,
                                   after |-> frames.maps[live], reverted |-> restores]]
    IN  /\ depth > 0
        /\ err = "ErrNotEnoughFunds" => ~top.ran
        /\ err = "ErrCodeStoreOutOfGas" => top.type = "Create"
        /\ Returned(IF restores THEN RevertToMaps(frames, top.snap) ELSE frames.live)
        /\ UNCHANGED <<state, accessList, gasPool, totalGas, receipts, fees, cfg, last>>

NextFrames ==
    \/ \E type \in { "Call", "Create" } : EnterFrame(type)
    \/ \E item \in { <<"target", Nil>>, <<"target", "slot1">>, <<"ctr", "slot1">> } :
          Touch(item[1], item[2])
    \/ \E err \in { ErrNone, "ErrExecutionReverted", "ErrNotEnoughFunds",
                    "ErrCodeStoreOutOfGas" } : ReturnFrame(err)

SpecFrames == InitFrames /\ [][NextFrames]_vars

-----------------------------------------------------------------------------
(* The executor's entry points on a block: Transition.WithStateOverride on the
   Transition of a read path and Executor.ProcessBlock.  Go iterates over the
   override map in an order of its own choosing: order is the order the
   addresses come in.  A pointer is a sequence: <<>> is nil, <<x>> points to x;
   a storage map is <<>> when nil and <<m>> when it holds m. *)

\* transactions in a block
MaxBlock == 3

\* WithStateOverride: the loop over the entries of the override
RECURSIVE WithStateOverride(_, _, _)
WithStateOverride(st, override, order) ==
    IF order = <<>> THEN [st |-> st, err |-> ErrNone]
    ELSE LET addr == Head(order)
             o == override[addr]
             s1 == IF o.nonce # <<>> THEN [st EXCEPT !.nonce[addr] = o.nonce[1]] ELSE st
             s2 == IF o.balance # <<>> THEN [s1 EXCEPT !.balance[addr] = o.balance[1]] ELSE s1
             s3 == IF o.code # <<>> THEN SetCode(s2, addr, o.code[1]) ELSE s2
             \* SetFullStorage replaces the storage of addr by the map
             s4 == IF o.state # <<>>
                   THEN [s3 EXCEPT !.storage =
                            [k \in Slots |->
                                IF k[1] # addr THEN @[k]
                                ELSE IF k[2] \in DOMAIN o.state[1] THEN o.state[1][k[2]]
                                ELSE 0]]
                   ELSE s3
             s5 == IF o.stateDiff # <<>>
                   THEN [s4 EXCEPT !.storage =
                            [k \in Slots |->
                                IF k[1] = addr /\ k[2] \in DOMAIN o.stateDiff[1]
                                THEN o.stateDiff[1][k[2]] ELSE @[k]]]
                   ELSE s4
         IN  IF o.state # <<>> /\ o.stateDiff # <<>>
             THEN [st |-> st, err |-> "cannot override both state and state diff"]
             ELSE WithStateOverride(s5, override, Tail(order))

\* the entries an override is made of
OverrideEntries ==
    { [nonce |-> <<5>>, balance |-> <<9>>, code |-> <<>>, state |-> <<>>, stateDiff |-> <<>>],
      [nonce |-> <<>>, balance |-> <<>>, code |-> <<7>>, state |-> <<>>,
       stateDiff |-> << "slot1" :> 3 >>],
      [nonce |-> <<>>, balance |-> <<>>, code |-> <<>>, state |-> << "slot1" :> 4 >>,
       stateDiff |-> <<>>],
      [nonce |-> <<1>>, balance |-> <<>>, code |-> <<>>, state |-> << "slot1" :> 4 >>,
       stateDiff |-> << "slot1" :> 3 >>] }

\* a ProcessBlock that leaves no transaction out
exceedsNoGasLimit(t) == FALSE

\* the transactions ProcessBlock leaves out
exceedsGasLimit(t) == t.gas > BlockGasLimit

\* ProcessBlock: the loop over the block's transactions on the Transition tr.
\* It returns the Transition, or the error of the Write that failed and no
\* Transition; left counts the transactions from the failed one to the end
RECURSIVE ProcessBlock(_, _, _)
ProcessBlock(tr, txs, oc) ==
    IF txs = <<>> THEN [err |-> ErrNone, tr |-> tr, left |-> 0]
    ELSE LET t == Head(txs)
             \* Transition.Write, Apply having returned r
             Written(r) ==
                 LET total == U64(tr.totalGas + r.result.gasUsed)
                     Padded(x) == [i \in 1 .. 32 |->
                                      IF i < 29 THEN 0 ELSE (x \div 256 ^ (32 - i)) % 256]
                     logs == Append(r.st.logs,
                                    [address |-> FeeSplitLogAddress, topic |-> "XGRFeeSplit",
                                     data |-> Padded(r.fees.donation)
                                              \o Padded(r.fees.validator)
                                              \o Padded(r.fees.burned)])
                 IN  IF r.err # ErrNone
                     THEN [err |-> r.err, tr |-> Nil, left |-> Len(txs)]
                     ELSE ProcessBlock(
                              [st |-> CleanDeleteObjects(ClearLogs(r.st)), al |-> r.al,
                               pool |-> r.pool, fees |-> r.fees, totalGas |-> total,
                               receipts |-> Append(tr.receipts,
                                                   Receipt(t, total, r.result, logs))],
                              Tail(txs), oc)
         IN  IF exceedsGasLimit(t) THEN ProcessBlock(tr, Tail(txs), oc)
             ELSE Written(Apply(tr.st, tr.al, tr.pool, tr.fees, t, oc))

\* the transactions a block is made of: two of alice in the order of their
\* nonces, one of bob, and one whose gas exceeds the header's gas limit
BlockTemplates ==
    { LegacyTx("alice", "ctr", 5, 60000, 10, Payload(0, 0)),
      [LegacyTx("alice", "ctr", 5, 60000, 10, Payload(0, 0)) EXCEPT !.nonce = 1],
      LegacyTx("bob", "target", 100, 30000, 2, Payload(0, 0)),
      LegacyTx("alice", "ctr", 5, BlockGasLimit + 1, 10, Payload(0, 0)) }

Blocks == UNION { [1 .. n -> BlockTemplates] : n \in 0 .. MaxBlock }

SpecExecutor ==
    /\ Init
    /\ [][/\ last.op = "BeginTxn"
          /\ \/ \E accounts \in (SUBSET {"alice", "ctr", "target"}) \ {{}} :
                \E override \in [accounts -> OverrideEntries] :
                \E order \in [1 .. Cardinality(accounts) -> accounts] :
                    LET Overridden(r) ==
                            /\ state' = r.st
                            /\ last' = [n |-> 1, op |-> "WithStateOverride",
                                        override |-> override, order |-> order,
                                        err |-> r.err, pre |-> state]
                    IN  /\ \A i, j \in DOMAIN order : order[i] = order[j] => i = j
                        /\ Overridden(WithStateOverride(state, override, order))
                        /\ UNCHANGED <<accessList, gasPool, totalGas, receipts, fees>>
             \/ \E block \in Blocks : \E oc \in CallOutcomes :
                    LET Processed(r) ==
                            /\ IF r.err # ErrNone
                               THEN UNCHANGED <<state, accessList, gasPool, fees, totalGas,
                                                receipts>>
                               ELSE /\ state' = r.tr.st
                                    /\ accessList' = r.tr.al
                                    /\ gasPool' = r.tr.pool
                                    /\ fees' = r.tr.fees
                                    /\ totalGas' = r.tr.totalGas
                                    /\ receipts' = r.tr.receipts
                            /\ last' = [n |-> 1, op |-> "ProcessBlock", block |-> block,
                                        err |-> r.err, left |-> r.left, pre |-> state]
                    IN  Processed(ProcessBlock(
                            [st |-> state, al |-> accessList, pool |-> BlockGasLimit,
                             fees |-> fees, totalGas |-> 0, receipts |-> <<>>],
                            block, oc))
          /\ UNCHANGED <<cfg, frames>>]_vars

-----------------------------------------------------------------------------
(* Properties of the transition pipeline *)

RECURSIVE SumOver(_, _)
SumOver(f, S) ==
    IF S = {} THEN 0
    ELSE LET a == CHOOSE x \in S : TRUE IN f[a] + SumOver(f, S \ {a})

SumBalances(st) == SumOver(st.balance, Addr)

Wrote == last.op = "Write"
Accepted == Wrote /\ last.err = ErrNone
Rejected == Wrote /\ last.err # ErrNone

\* the journaled state a frame must restore: balances, nonces, code, storage, logs
SameJournal(s, t) ==
    /\ s.balance = t.balance
    /\ s.nonce = t.nonce
    /\ s.code = t.code
    /\ s.storage = t.storage
    /\ s.logs = t.logs

FailedFrame == Accepted /\ last.frame.entered /\ last.frame.took /\ last.frame.failed

\* C4: a frame that returns a failed result after taking its snapshot leaves the
\* journaled state (balances, nonces, code, storage, logs) and the access list as
\* they were when it took the snapshot, whatever the cause of the failure.
C4_FailedFrameRestoresSnapshot ==
    FailedFrame =>
        /\ SameJournal(last.frame.st, last.frame.snapshot)
        /\ last.frame.al = last.frame.accessListSnap

C6_RejectedWriteChangesNothing ==
    Rejected =>
        /\ Len(receipts) = last.pre.receipts
        /\ totalGas = last.pre.totalGas
        /\ state.balance = last.pre.state.balance
        /\ state.nonce = last.pre.state.nonce

C6_Witness ==
    /\ Rejected /\ last.gates /\ ~cfg.NonPayable
    /\ last.err \in {"ErrBlockLimitReached", "ErrIntrinsicGasOverflow",
                     "ErrNotEnoughIntrinsicGas"}
    /\ last.tx.gas * last.tx.gasPrice > 0

\* the credit of the fee split to account a
FeeCredit(a) ==
    (IF a = DonationConfig(state).addr THEN fees.donation ELSE 0)
    + (IF a = Coinbase THEN fees.validator ELSE 0)
    + (IF a = DefaultBurnedAddress THEN fees.burned ELSE 0)

\* C7: a transaction that passes the consensus gates and whose execution fails
\* gets a receipt with status Failed, and the state after it differs from the
\* state before it only in the sender's nonce (+1) and the gas-fee movements: no
\* value moved, no account created, no code or storage changed, no execution log.
C7_FailedExecutionOnlyCharges ==
    (Accepted /\ last.frame.failed /\ ~cfg.NonPayable) =>
        /\ Len(receipts) = last.pre.receipts + 1
        /\ receipts[Len(receipts)].status = "Failed"
        /\ Len(receipts[Len(receipts)].logs) = 1
        /\ \A a \in Addr :
              /\ GetNonce(state, a)
                    = GetNonce(last.pre.state, a) + (IF a = last.tx.from THEN 1 ELSE 0)
              /\ GetCode(state, a) = GetCode(last.pre.state, a)
              /\ GetBalance(state, a)
                    = GetBalance(last.pre.state, a) + FeeCredit(a)
                      - (IF a = last.tx.from THEN last.res.gasUsed * last.gasPrice ELSE 0)
        /\ state.storage = last.pre.state.storage

\* number of receipts before the i-th that the same sender got
EarlierFrom(i) ==
    Cardinality({ j \in 1 .. i - 1 : receipts[j].tx.from = receipts[i].tx.from })

\* C8: a non-State transaction is accepted only with the sender's current nonce;
\* every accepted transaction leaves the sender's nonce one higher; a transaction
\* written again after it was accepted is rejected with NonceIncorrect; the
\* accepted nonces of a sender come in order without a gap.
C8_NonceGate ==
    /\ (Accepted /\ last.tx.type # "State") =>
            last.tx.nonce = GetNonce(last.pre.state, last.tx.from)
    /\ Accepted =>
            GetNonce(state, last.tx.from) = GetNonce(last.pre.state, last.tx.from) + 1
    /\ (Wrote /\ last.tx.type # "State"
          /\ \E i \in 1 .. last.pre.receipts : receipts[i].tx = last.tx) =>
            last.err = "ErrNonceIncorrect"
    /\ \A i \in 1 .. Len(receipts) :
            receipts[i].tx.type # "State" => receipts[i].tx.nonce = EarlierFrom(i)

C8_Witness ==
    /\ Rejected /\ last.err = "ErrNonceIncorrect"
    /\ \E i \in 1 .. Len(receipts) : receipts[i].tx = last.tx
    /\ \E i \in 1 .. Len(receipts) : receipts[i].tx.nonce = 1 /\ receipts[i].tx.to = Nil

RECURSIVE SumGasUsed(_)
SumGasUsed(rs) == IF rs = <<>> THEN 0 ELSE Head(rs).gasUsed + SumGasUsed(Tail(rs))

C10_ReceiptGas ==
    \A i \in 1 .. Len(receipts) :
        /\ receipts[i].gasUsed <= receipts[i].tx.gas
        /\ receipts[i].cumulativeGasUsed
              = (IF i = 1 THEN 0 ELSE receipts[i - 1].cumulativeGasUsed) + receipts[i].gasUsed
        /\ i > 1 => receipts[i].cumulativeGasUsed >= receipts[i - 1].cumulativeGasUsed

C10_Witness ==
    /\ Len(receipts) = MaxTxs
    /\ \A i \in 1 .. Len(receipts) : receipts[i].gasUsed > 0
    /\ \E i \in 1 .. Len(receipts) : receipts[i].gasUsed < receipts[i].tx.gas

Min(a, b) == IF a < b THEN a ELSE b

\* C11: for every accepted transaction, with total_fee_raw = gas_used * gas_price:
\* burned = min(1000 Gwei, total_fee_raw), donation = floor((total_fee_raw - burned)
\* * donation_percent / 100), validator = total_fee_raw - burned - donation; the
\* three are non-negative and add up to total_fee_raw; donation_percent = 100
\* leaves validator = 0, donation_percent = 0 leaves donation = 0, and a fee below
\* the burn is burnt whole.
C11_FeeSplit ==
    Accepted =>
        LET raw == last.res.gasUsed * last.gasPrice
            pct == DonationConfig(last.pre.state).percent
        IN  /\ fees.burned = Min(BurnedFixed, raw)
            /\ fees.donation = ((raw - fees.burned) * pct) \div 100
            /\ fees.validator = raw - fees.burned - fees.donation
            /\ fees.burned >= 0 /\ fees.donation >= 0 /\ fees.validator >= 0
            /\ fees.donation + fees.validator + fees.burned = raw
            /\ pct = 100 => fees.validator = 0
            /\ pct = 0 => fees.donation = 0
            /\ raw < BurnedFixed =>
                  fees.burned = raw /\ fees.donation = 0 /\ fees.validator = 0

\* three accepted transactions on a chain that donates half: one whose fee is
\* below the burn, one whose fee equals it, one that splits an odd remainder
C11_Witness ==
    /\ Accepted /\ Len(receipts) = 3
    /\ DonationConfig(last.pre.state).percent = 50
    /\ fees.donation > 0 /\ fees.validator = fees.donation + 1
    /\ \E i \in 1 .. 2 : receipts[i].gasUsed * receipts[i].tx.gasPrice = BurnedFixed
    /\ \E i \in 1 .. 2 : receipts[i].gasUsed * receipts[i].tx.gasPrice < BurnedFixed

-----------------------------------------------------------------------------
(* Properties of the engine-execute precompile *)

\* the last transaction ran ENGINE_EXECUTE, decoded, for an authorized caller
EngineExecuted == Accepted /\ last.res.obs.ran /\ last.res.obs.authorized

\* the grant billing of the last ENGINE_EXECUTE was asked for and failed
BillingFailed == last.tx.input.call.grantFeeSeconds > 0 /\ ~last.res.obs.billed

\* max(1, stored): an unset counter reads as 1
Effective(stored) == IF stored = 0 THEN 1 ELSE stored

SessionGuard ==
    LET o == last.res.obs
        sid == last.tx.input.grant.sessionId
        curNext == Effective(o.storedAtEntry)
    IN  /\ sid > curNext => Failed(last.res)
        /\ sid = curNext =>
              /\ o.class = "newRoot" /\ o.wrote
              /\ o.storedAtReturn = sid + 1
        /\ sid < curNext =>
              /\ o.class = "followUp" /\ ~o.wrote
              /\ o.storedAtReturn = o.storedAtEntry

\* C1: in every ENGINE_EXECUTE by an authorized caller, with curNext =
\* max(1, kNext(grant.from)) read at entry: session_id > curNext is rejected;
\* session_id = curNext is a new root and kNext(grant.from) is set to
\* session_id + 1; session_id < curNext is a follow-up and kNext is not written.
C1_SessionGuard == EngineExecuted => SessionGuard

\* C1 (amended): the same for the invocations whose grant billing, when the call
\* asks for one, succeeded; an invocation whose billing fails returns before the
\* session id is looked at.
C1_SessionGuardAfterBilling == (EngineExecuted /\ ~BillingFailed) => SessionGuard

C1_Witness ==
    /\ EngineExecuted /\ ~BillingFailed
    /\ last.tx.input.grant.sessionId = 2
    /\ last.res.obs.storedAtEntry = 2
    /\ last.res.obs.storedAtReturn = 3
    /\ last.res.obs.innerCalled /\ ~last.res.obs.innerOk

\* the last transaction was an ENGINE_EXECUTE for user u that completed without
\* error with session_id = curNext
NewRootCompleted(u) ==
    /\ Accepted /\ ~Failed(last.res)
    /\ last.tx.to = EngineExecutePrecompile
    /\ last.tx.input.selector = "ENGINE_EXECUTE"
    /\ last.tx.input.grant.from = u
    /\ last.tx.input.grant.sessionId
          = Effective(GetState(last.pre.state, EngineExecutePrecompile, kNext(u)))

EngineExecuteFrame ==
    /\ Accepted /\ last.frame.entered
    /\ last.tx.to = EngineExecutePrecompile
    /\ last.tx.input.selector = "ENGINE_EXECUTE"

\* C12: an ENGINE_EXECUTE invocation that returns an error leaves no trace once
\* its call frame has returned: the balances of the user and of the engine,
\* kNext(user) and the log buffer are as before the invocation, also when a grant
\* fee was transferred and logged or kNext was bumped earlier in the invocation.
C12_FailedInvocationLeavesNoTrace ==
    (EngineExecuteFrame /\ last.frame.failed) =>
        LET user == last.tx.input.grant.from
            before == last.frame.snapshot
            after == last.frame.st
        IN  /\ GetBalance(after, user) = GetBalance(before, user)
            /\ GetBalance(after, last.tx.from) = GetBalance(before, last.tx.from)
            /\ sloadU256(after, kNext(user)) = sloadU256(before, kNext(user))
            /\ after.logs = before.logs

\* the deadline had passed after the grant fee was billed and logged and the
\* counter was bumped
C12_Witness ==
    /\ EngineExecuteFrame /\ last.frame.failed
    /\ last.res.err = "ErrUnauthorizedCaller"
    /\ last.res.obs.billed /\ last.res.obs.fee > 0
    /\ last.res.obs.wrote
    /\ Len(last.res.obs.logsAtReturn) > 0

\* the last transaction ran the precompile on an input of the given selector
Invoked(selector) ==
    /\ Accepted /\ last.frame.entered
    /\ last.tx.to = EngineExecutePrecompile
    /\ last.tx.input.selector = selector

\* the authorization rule: the bootstrap engine while no registry is deployed,
\* else the registry's list unless the registry is paused
MayInvoke(st, caller) ==
    IF cfg.EngineRegistryAddress = ZeroAddress \/ GetCode(st, cfg.EngineRegistryAddress) = 0
    THEN cfg.BootstrapEngineEOA # ZeroAddress /\ caller = cfg.BootstrapEngineEOA
    ELSE /\ GetState(st, cfg.EngineRegistryAddress, "paused") = 0
         /\ GetState(st, cfg.EngineRegistryAddress, AuthorizedEngineKey(caller)) # 0

EngineGatesPassed ==
    LET call == last.tx.input.call
    IN  /\ Invoked("ENGINE_EXECUTE") /\ last.tx.input.decodes
        /\ MayInvoke(last.pre.state, last.tx.from)
        /\ last.tx.input.grant.sessionId
              <= Effective(sloadU256(last.frame.snapshot, kNext(last.tx.input.grant.from)))
        /\ call.deadline = 0 \/ cfg.timestamp <= call.deadline
        /\ last.gasPrice > 0
        /\ call.maxFeePerGas = 0 \/ call.maxFeePerGas >= cfg.baseFee
        /\ ~(call.to = ZeroAddress /\ call.gasLimit # 0)

\* worst = total_units * paid_wei_per_gas + value + grant_fee_wei
WorstCase(input, paidWeiPerGas) ==
    totalTxUnits(calcFee(input, input.grant, input.call, input.meta)) * paidWeiPerGas
    + input.call.valueWei
    + GrantFeeWei(input.call.grantFeeSeconds, input.call.grantFeePerYearWei)

\* C14: an ENGINE_EXECUTE that passes authorization, session, deadline and price
\* gating is rejected for lack of funds exactly when the user's balance at the
\* start of the invocation is below worst = total_units * paid_wei_per_gas + value
\* + grant_fee_wei; the rejection is NotEnoughFunds, and a user holding exactly
\* worst is not rejected. Stated of the invocations whose grant billing, if any,
\* went through.
C14_PreflightOnBalanceAtStart ==
    (EngineGatesPassed /\ ~BillingFailed) =>
        ((last.res.err = "ErrNotEnoughFunds")
           <=> (GetBalance(last.frame.snapshot, last.tx.input.grant.from)
                  < WorstCase(last.tx.input, last.gasPrice)))

\* C15: after an ENGINE_EXECUTE that returns without error and bills no grant fee,
\* the engine's balance has risen by exactly evm_refund + engine_fee = total_units
\* * paid_wei_per_gas, the user's has fallen by that amount, plus the call value
\* if the inner CALL succeeded, and the returned tuple is (success, total_units,
\* evm_refund, engine_fee) with evm_refund = evm_tx_units * paid_wei_per_gas and
\* engine_fee = validation_gas * paid_wei_per_gas. Stated of the invocations whose
\* inner CALL, if any, pays neither the user nor the engine.
C15_SettlementIsExact ==
    (Invoked("ENGINE_EXECUTE") /\ ~last.frame.failed
       /\ last.tx.input.call.grantFeeSeconds = 0
       /\ last.tx.input.call.to \notin {last.tx.input.grant.from, last.tx.from}) =>
        LET input == last.tx.input
            user == input.grant.from
            engine == last.tx.from
            fc == calcFee(input, input.grant, input.call, input.meta)
            out == last.res.out
            paid == out.evmRefund + out.engineFee
            before == last.frame.snapshot
            after == last.frame.st
        IN  /\ out.evmRefund = evmTxUnits(fc) * last.gasPrice
            /\ out.engineFee = input.call.validationGas * last.gasPrice
            /\ out.success = last.res.obs.innerOk
            /\ paid = out.totalUnits * last.gasPrice
            /\ GetBalance(after, engine) = GetBalance(before, engine) + paid
            /\ GetBalance(after, user)
                  = GetBalance(before, user) - paid
                    - (IF out.success THEN input.call.valueWei ELSE 0)

\* C16: for every decodable ENGINE_EXECUTE input, gas(input) = validation_gas +
\* log_units_total + call_overhead_units + exec_limit and total_units = gas(input)
\* + 21000 + calldata_units(input), as exact integers with no wrap-around for any
\* uint64 validation_gas and gas_limit; for an ENGINE_EXECUTE selector whose
\* arguments fail to decode, gas returns 21000.
C16_GasIsExactSum ==
    (Wrote /\ last.tx.to = EngineExecutePrecompile
       /\ last.tx.input.selector = "ENGINE_EXECUTE") =>
        LET input == last.tx.input
            call == input.call
            fc == calcFee(input, input.grant, call, input.meta)
            logUnitsTotal == (375 + 375 + 8 * calcEngineMetaLen(input.grant, input.meta))
                             + (375 + 375 + 8 * calcEngineExtrasLen(input.meta))
            doCall == call.to # ZeroAddress /\ call.gasLimit > 0
            callOverhead == IF doCall THEN 700 + 2600 + 3 * ((call.dataLen + 31) \div 32) ELSE 0
            execLimit == IF doCall THEN call.gasLimit ELSE 0
        IN  IF input.decodes
            THEN /\ engineGas(input)
                      = call.validationGas + logUnitsTotal + callOverhead + execLimit
                 /\ totalTxUnits(fc)
                      = engineGas(input) + 21000 + 4 * input.zeros + 16 * input.nonzeros
            ELSE engineGas(input) = 21000

\* the logs the precompile emitted during the last call frame, in order
PrecompileLogs ==
    LET FromPrecompile(l) == l.address = EngineExecutePrecompile
        emitted == SubSeq(last.frame.st.logs, Len(last.frame.snapshot.logs) + 1,
                          Len(last.frame.st.logs))
    IN  [i \in 1 .. Len(SelectSeq(emitted, FromPrecompile)) |->
            SelectSeq(emitted, FromPrecompile)[i].topic]

\* C17: every ENGINE_EXECUTE that returns without error emits exactly two logs from
\* the precompile address, EngineMeta followed by EngineExtrasV2, whether the inner
\* CALL was skipped, succeeded or failed, and whether or not a grant fee was billed.
C17_ExactlyTwoLogs ==
    (Invoked("ENGINE_EXECUTE") /\ ~last.frame.failed) =>
        PrecompileLogs = <<"EngineMeta", "EngineExtrasV2">>

\* C17 (amended): two logs when the call asks for no grant fee; when it asks for
\* one (grant_fee_seconds > 0) the log of the grant fee, which has no topic, comes
\* before the two.
C17_TwoLogsAfterGrantFeeLog ==
    (Invoked("ENGINE_EXECUTE") /\ ~last.frame.failed) =>
        PrecompileLogs = IF last.tx.input.call.grantFeeSeconds > 0
                         THEN <<Nil, "EngineMeta", "EngineExtrasV2">>
                         ELSE <<"EngineMeta", "EngineExtrasV2">>

\* a follow-up that billed a grant fee, after a root whose inner CALL failed
C17_Witness ==
    /\ Invoked("ENGINE_EXECUTE") /\ ~last.frame.failed
    /\ last.res.obs.billed /\ last.res.obs.class = "followUp"
    /\ Len(PrecompileLogs) = 3
    /\ \E i \in 1 .. Len(receipts) - 1 :
          /\ receipts[i].tx.input.call.to = "target"
          /\ receipts[i].status = "Success"
          /\ Len(receipts[i].logs) = 3

\* C3: whenever the balance preflight of ENGINE_EXECUTE passes, the later
\* transfer of evm_refund + engine_fee from the user to the engine succeeds.
C3_PreflightCoversTransfer ==
    (EngineExecuted /\ last.res.obs.preflight = "pass") =>
        last.res.obs.transferErr \in {Nil, ErrNone}

-----------------------------------------------------------------------------
(* Properties of the access list across frames *)

\* everything in the access list small is in the access list big
Within(small, big) ==
    small.addresses \subseteq big.addresses /\ small.slots \subseteq big.slots

\* a frame returned a failure without restoring the access list: a creation
\* that cannot pay for its code on a chain without Homestead keeps what it did
KeptDespiteFailure ==
    /\ frames.ret.type = "Create"
    /\ frames.ret.err = "ErrCodeStoreOutOfGas"
    /\ ~cfg.Homestead

C20_RevertToRestoresTheCopy ==
    /\ \A i \in 1 .. Len(frames.open) :
          frames.maps[frames.open[i].snap] = frames.open[i].entry
    /\ frames.ret.reverted =>
          /\ \A a \in Addr :
                ContainsAddress(frames.ret.after, a) = ContainsAddress(frames.ret.entry, a)
          /\ \A k \in Slots :
                ContainsSlot(frames.ret.after, k[1], k[2])
                    = ContainsSlot(frames.ret.entry, k[1], k[2])

\* RevertTo has undone an AddAddress and an AddSlot made after the copy, while
\* an earlier copy is still waiting to be restored
C20_Witness ==
    /\ frames.ret.reverted
    /\ ~ContainsAddress(frames.ret.entry, "target")
    /\ ContainsAddress(frames.ret.warmed, "target")
    /\ ~ContainsSlot(frames.ret.entry, "ctr", "slot1")
    /\ ContainsSlot(frames.ret.warmed, "ctr", "slot1")
    /\ frames.open # <<>>

\* sender, target or created address, coinbase under EIP-3651, the precompiles,
\* and under EIP-2930 the addresses of the transaction's access list
WarmAddresses(tx) ==
    {tx.from}
    \cup (IF tx.to = Nil THEN {CreateAddress(tx.from, tx.nonce)} ELSE {tx.to})
    \cup (IF cfg.EIP3651 THEN {Coinbase} ELSE {})
    \cup precompiledContracts
    \cup (IF cfg.EIP2930
          THEN { tx.accessList[i].address : i \in 1 .. Len(tx.accessList) }
          ELSE {})

\* under EIP-2930 the (address, slot) pairs of the transaction's access list
WarmSlots(tx) ==
    IF cfg.EIP2930
    THEN UNION { { <<tx.accessList[i].address, tx.accessList[i].storageKeys[j]>> :
                      j \in 1 .. Len(tx.accessList[i].storageKeys) } :
                 i \in 1 .. Len(tx.accessList) }
    ELSE {}

\* C19: with EIP-2929 active the access list a transaction starts executing
\* with holds exactly the sender, the target or the created address, the
\* coinbase under EIP-3651, the thirteen precompiles and, under EIP-2930, the
\* transaction's access list; nothing an earlier transaction warmed is in it
\* unless it is one of these.
C19_WarmSetAtStart ==
    (last.op = "Write" /\ last.frame.entered /\ cfg.EIP2929) =>
        /\ last.frame.accessListSnap.addresses = WarmAddresses(last.tx)
        /\ last.frame.accessListSnap.slots = WarmSlots(last.tx)
        /\ Cardinality(precompiledContracts) = 13

\* a transaction with an access list of its own started on a list that lacks
\* a slot the transaction before it had left warm
C19_Witness ==
    /\ last.op = "Write" /\ last.frame.entered /\ cfg.EIP2929
    /\ last.n >= 2
    /\ last.tx.accessList # <<>>
    /\ ~(last.pre.accessList.slots \subseteq last.frame.accessListSnap.slots)

-----------------------------------------------------------------------------
(* Properties of the gates *)

\* the number of storage keys in the access list of tx
KeyCount(tx) ==
    Cardinality(UNION { { <<i, j>> : j \in 1 .. Len(tx.accessList[i].storageKeys) } :
                        i \in 1 .. Len(tx.accessList) })

\* the intrinsic cost of tx in unbounded arithmetic
ExactIntrinsicGas(tx) ==
    LET len == tx.input.zeros + tx.input.nonzeros
    IN  (IF tx.to = Nil /\ cfg.Homestead THEN 53000 ELSE 21000)
        + 4 * tx.input.zeros
        + (IF cfg.Istanbul THEN 16 ELSE 68) * tx.input.nonzeros
        + (IF tx.to = Nil /\ cfg.EIP3860 THEN 2 * ((len + 31) \div 32) ELSE 0)
        + (IF cfg.EIP2930 /\ tx.type \in {"AccessList", "DynamicFee"}
           THEN 2400 * Len(tx.accessList) + 1900 * KeyCount(tx)
           ELSE 0)

\* what TransactionGasCost returns for the transaction just written
IntrinsicOfLast ==
    TransactionGasCost(last.tx, cfg.Homestead, cfg.Istanbul, cfg.EIP3860, cfg.EIP2930)

C22_NoWrappedCost ==
    last.op = "Write" =>
        IF ExactIntrinsicGas(last.tx) > MaxUint64
        THEN IntrinsicOfLast.err = "ErrIntrinsicGasOverflow"
        ELSE IntrinsicOfLast = [cost |-> ExactIntrinsicGas(last.tx), err |-> ErrNone]

\* the length of the init code of the creation transaction tx
InitCodeLen(tx) == tx.input.zeros + tx.input.nonzeros

StateTxInOrder(tx) ==
    /\ tx.gasPrice = 0
    /\ tx.gas = 100000
    /\ tx.from = SystemCaller
    /\ tx.to \notin {Nil, ZeroAddress}

\* C24: a State transaction is applied only if its gas price is 0, its gas is
\* StateTransactionGasLimit, its sender is SystemCaller and its recipient is
\* present and not the zero address; one that breaks a rule is rejected and
\* changes nothing; one that is applied costs its sender nothing and splits
\* fees of zero.
C24_StateTxGate ==
    (last.op = "Write" /\ last.tx.type = "State") =>
        /\ last.err = ErrNone => StateTxInOrder(last.tx)
        /\ ~StateTxInOrder(last.tx) =>
              /\ last.err # ErrNone
              /\ state = last.pre.state
              /\ gasPool = last.pre.gasPool
              /\ totalGas = last.pre.totalGas
              /\ Len(receipts) = last.pre.receipts
              /\ fees = last.pre.fees
        /\ last.err = ErrNone =>
              /\ fees = [donation |-> 0, validator |-> 0, burned |-> 0]
              /\ GetBalance(state, last.tx.from)
                    = GetBalance(last.pre.state, last.tx.from) - last.tx.value
              /\ \A a \in {Coinbase, DefaultBurnedAddress, "donee"} :
                    GetBalance(state, a) = GetBalance(last.pre.state, a)

\* a State transaction was applied after a transaction that had paid fees
C24_Witness ==
    /\ last.op = "Write" /\ last.tx.type = "State" /\ last.err = ErrNone
    /\ StateTxInOrder(last.tx)
    /\ last.pre.fees.burned > 0
    /\ last.res.gasUsed > 0

\* frames deeper than cap are refused with ErrDepth, all their gas handed back
\* and nothing changed; frames down to cap are not refused for their depth
DepthCappedAt(cap) ==
    /\ (last.op = "Write" /\ last.frame.entered) => last.frame.err # "ErrDepth"
    /\ last.op = "Callx" =>
          IF last.frame.contract.depth > cap
          THEN /\ last.res.err = "ErrDepth"
               /\ last.res.gasLeft = last.frame.contract.gas
               /\ state = last.pre.state
               /\ accessList = last.pre.accessList
          ELSE last.res.err # "ErrDepth"

\* C26 as stated: applyCall and applyCreate refuse every frame deeper than 1024
\* with the Depth error, return all its gas and leave state, caller nonce and
\* access list alone, and accept frames at depth 1 to 1024.
C26_DepthCappedAt1024 == DepthCappedAt(1024)

\* C26 amended: the same with 1025 in the place of 1024: the transaction's own
\* frame has depth 1 and a frame is refused when its depth exceeds 1024 + 1.
C26_DepthCappedAt1025 == DepthCappedAt(1025)

\* a creation frame at depth 1026 was refused and its creator's nonce not used
C26_Witness ==
    /\ last.op = "Callx" /\ last.frame.type = "Create"
    /\ last.frame.contract.depth = 1026
    /\ last.res.err = "ErrDepth"
    /\ last.res.gasLeft = 30000
    /\ GetNonce(state, "ctr") = GetNonce(last.pre.state, "ctr")

\* the fee split of the last transaction gave percent of the fee left after the
\* burn to recipient
DonationWent(recipient, percent) ==
    LET Gain(a) == GetBalance(state, a) - GetBalance(last.pre.state, a)
    IN  /\ fees.donation = ((fees.donation + fees.validator) * percent) \div 100
        /\ IF recipient = DefaultBurnedAddress
           THEN Gain(DefaultBurnedAddress) = fees.donation + fees.burned
           ELSE /\ Gain(recipient) = fees.donation
                /\ Gain(DefaultBurnedAddress) = fees.burned

\* the registry is configured and its account has code
RegistryDeployed ==
    cfg.EngineRegistryAddress # ZeroAddress /\ GetCode(state, cfg.EngineRegistryAddress) > 0

\* C27 as stated: with no registry address or no code at it the donation goes
\* to 0x..0666 at 15 percent; with code at the registry it goes to the address
\* in slot 8 at the percent in slot 9.
C27_DonationAsStored ==
    (last.op = "Write" /\ last.err = ErrNone) =>
        IF RegistryDeployed
        THEN DonationWent(GetState(state, RegistryAddr, "donationAddress"),
                          GetState(state, RegistryAddr, "donationPercent"))
        ELSE DonationWent(DefaultBurnedAddress, 15)

\* C27 amended: with code at the registry, a zero address in slot 8 turns the
\* donation off (0 percent), and otherwise the donation goes to the address in
\* slot 8 at the percent in slot 9 if that is at most 100 and at 15 percent if
\* it is more.
C27_DonationAsStoredIfValid ==
    (last.op = "Write" /\ last.err = ErrNone) =>
        LET addr == GetState(state, RegistryAddr, "donationAddress")
            pct == GetState(state, RegistryAddr, "donationPercent")
        IN  IF ~RegistryDeployed THEN DonationWent(DefaultBurnedAddress, 15)
            ELSE IF addr = ZeroAddress THEN DonationWent(DefaultBurnedAddress, 0)
            ELSE DonationWent(addr, IF pct <= 100 THEN pct ELSE 15)

\* the registry stores 101 percent and a recipient, who was paid 15 percent
C27_Witness ==
    /\ last.op = "Write" /\ last.err = ErrNone
    /\ RegistryDeployed
    /\ GetState(state, RegistryAddr, "donationPercent") = 101
    /\ GetState(state, RegistryAddr, "donationAddress") = "donee"
    /\ fees.donation > 0
    /\ GetBalance(state, "donee") > GetBalance(last.pre.state, "donee")

-----------------------------------------------------------------------------
(* Properties of receipts *)

\* the unsigned big-endian number in bytes from .. from + 31 of data
Word(data, from) ==
    IF \E i \in 0 .. 27 : data[from + i] # 0 THEN -1
    ELSE data[from + 28] * 16777216 + data[from + 29] * 65536
         + data[from + 30] * 256 + data[from + 31]

\* the fee-split logs of a receipt, by position
FeeSplitLogs(receipt) ==
    { i \in 1 .. Len(receipt.logs) : receipt.logs[i].address = FeeSplitLogAddress }

\* C25: the receipt of every transaction other than a State transaction ends
\* with the one XGRFeeSplit log from 0x..fEE1 it holds, whose data are the
\* donation, validator and burned amounts of that transaction as three 32-byte
\* big-endian words; the receipt of a State transaction holds no such log.
C25_FeeSplitLogButForStateTx ==
    (last.op = "Write" /\ last.err = ErrNone) =>
        LET receipt == receipts[Len(receipts)]
            log == receipt.logs[Len(receipt.logs)]
        IN  IF last.tx.type = "State"
            THEN FeeSplitLogs(receipt) = {}
            ELSE /\ FeeSplitLogs(receipt) = { Len(receipt.logs) }
                 /\ log.topic = "XGRFeeSplit"
                 /\ Len(log.data) = 96
                 /\ Word(log.data, 1) = fees.donation
                 /\ Word(log.data, 33) = fees.validator
                 /\ Word(log.data, 65) = fees.burned

-----------------------------------------------------------------------------
(* Properties of the genesis state *)

\* the value the allocation gives to a field of an account, 0 for an account
\* that is not allocated
Allocated(alloc, a, field) ==
    IF a \in DOMAIN alloc THEN alloc[a][field] ELSE 0

-----------------------------------------------------------------------------
(* Properties of the wire format *)

-----------------------------------------------------------------------------
(* Properties of a new root whose inner CALL fails *)

\* the last transaction ran ENGINE_EXECUTE as a new root and came to its inner CALL
NewRootCalled ==
    /\ EngineExecuted
    /\ last.res.obs.class = "newRoot"
    /\ last.res.obs.innerCalled

\* the inner CALL of a new root finds kNext = session_id + 1
BumpedBeforeInnerCall ==
    NewRootCalled =>
        last.res.obs.storedAtInner = last.tx.input.grant.sessionId + 1

\* a new root whose inner CALL failed returns success = false without error
\* and leaves kNext(user) = session_id + 1
BumpKeptAfterFailedCall ==
    (NewRootCalled /\ ~last.res.obs.innerOk) =>
        /\ ~Failed(last.res)
        /\ ~last.frame.failed
        /\ last.res.out.success = FALSE
        /\ sloadU256(state, kNext(last.tx.input.grant.from))
              = last.tx.input.grant.sessionId + 1

\* C30: in a new-root ENGINE_EXECUTE kNext := session_id + 1 is written before
\* the inner CALL starts, so the inner CALL observes the bumped value; if the
\* inner CALL fails or reverts, the invocation still returns without error with
\* success = false and kNext(user) = session_id + 1 afterwards.
C30_BumpBeforeInnerCall ==
    BumpedBeforeInnerCall /\ BumpKeptAfterFailedCall

-----------------------------------------------------------------------------
(* Properties of the used session ids *)

\* the session ids the model asks about
Pids == 0 .. MaxTxs + 2

\* what ENGINE_IS_PID_USED(u, p) answers in the current state
IsPidUsedNow(u, p) ==
    isPidUsed(state, accessList,
              EngineInput("ENGINE_IS_PID_USED", TRUE, Grant(u, p), LogOnly)).out.success

\* what ENGINE_GET_NEXT_PID(u) answers in the current state
NextPidNow(u) ==
    getNextPid(state, accessList,
               EngineInput("ENGINE_GET_NEXT_PID", TRUE, Grant(u, 1), LogOnly)).out.value

\* the number of the first k receipts that are successful ENGINE_EXECUTE
\* invocations for u whose session id was the next one to open
RECURSIVE RootsOpened(_, _)
RootsOpened(u, k) ==
    IF k = 0 THEN 0
    ELSE LET r == receipts[k]
             n == RootsOpened(u, k - 1)
         IN  IF /\ r.status = "Success"
                /\ r.tx.to = EngineExecutePrecompile
                /\ r.tx.input.selector = "ENGINE_EXECUTE"
                /\ r.tx.input.grant.from = u
                /\ r.tx.input.grant.sessionId = n + 1
             THEN n + 1 ELSE n

-----------------------------------------------------------------------------
(* Properties of applyCreate *)

\* Callx returned from a creation frame
Created1 == last.op = "Callx" /\ last.frame.type = "Create"

\* the target of the frame had a nonce or code when the frame was entered
TargetTaken ==
    \/ GetNonce(last.pre.state, last.frame.address) # 0
    \/ GetCode(last.pre.state, last.frame.address) # 0

\* the code at the target is the init code's return value exactly when the
\* frame succeeded, otherwise the code that was there; a success returns the
\* init code's remaining gas less 200 per byte of code
InstalledIffSuccessful ==
    Created1 =>
        LET a == last.frame.address
            ret == last.frame.oc.retLen
            remaining == GasAfter(last.frame.contract.gas, last.frame.oc.gasUse)
        IN  IF Failed(last.res)
            THEN GetCode(state, a) = GetCode(last.pre.state, a)
            ELSE /\ GetCode(state, a) = ret
                 /\ cfg.EIP158 => ret <= SpuriousDragonMaxCodeSize
                 /\ last.res.gasLeft = remaining - 200 * ret

\* a frame onto a taken target, entered at a depth in depths, fails with
\* ContractAddressCollision and no gas left and changes the caller's nonce only
CollisionAt(depths) ==
    (Created1 /\ TargetTaken /\ last.frame.contract.depth \in depths) =>
        /\ last.res.err = "ErrContractAddressCollision"
        /\ last.res.gasLeft = 0
        /\ state = IncrNonce(last.pre.state, last.frame.contract.caller)
        /\ accessList = last.pre.accessList

-----------------------------------------------------------------------------
(* Properties of the inner CALL of ENGINE_EXECUTE *)

\* the call of the last ENGINE_EXECUTE names a target and a gas limit
TargetAndGas ==
    last.tx.input.call.to # ZeroAddress /\ last.tx.input.call.gasLimit > 0

\* the last transaction was an ENGINE_EXECUTE of an authorized engine
ExecuteInvoked ==
    /\ EngineExecuted
    /\ last.tx.to = EngineExecutePrecompile
    /\ last.tx.input.selector = "ENGINE_EXECUTE"

-----------------------------------------------------------------------------
(* Properties of the gas pool *)

\* the sum of GasUsed over the first k receipts
RECURSIVE GasUsedUpTo(_)
GasUsedUpTo(k) ==
    IF k = 0 THEN 0 ELSE GasUsedUpTo(k - 1) + receipts[k].gasUsed

\* C34: after any sequence of Write calls, accepted or rejected, the remaining
\* gas pool equals header.gas_limit minus TotalGas(), and TotalGas() equals the
\* sum of GasUsed over Receipts(); a transaction rejected after the pool was
\* debited leaves the pool as it was before that transaction.
C34_PoolIsLimitLessTotalGas ==
    /\ totalGas = GasUsedUpTo(Len(receipts))
    /\ gasPool = BlockGasLimit - totalGas
    /\ Rejected => gasPool = last.pre.gasPool

-----------------------------------------------------------------------------
(* Properties of follow-ups *)

\* the last ENGINE_EXECUTE passed the session guard as a follow-up
FollowUpAccepted == ExecuteInvoked /\ last.res.obs.class = "followUp"

\* the session of the last ENGINE_EXECUTE was used when the frame was entered,
\* and one of the earlier receipts of its user opened it
SessionOpenedBefore ==
    /\ pidUsed(last.frame.snapshot, last.tx.input.grant.from, last.tx.input.grant.sessionId)
    /\ last.tx.input.grant.sessionId
          <= RootsOpened(last.tx.input.grant.from, Len(receipts))

\* C35, as stated: whenever ENGINE_EXECUTE accepts an invocation as a follow-up
\* (session_id < curNext), ENGINE_IS_PID_USED(grant.from, session_id) is true in
\* the state at entry: the session was opened as a new root for that user
\* before, so session_id is not 0 and the user has a session.
C35_FollowUpOfAnOpenedSession ==
    FollowUpAccepted => SessionOpenedBefore

\* C35, amended: a follow-up with session_id >= 1 is accepted only for a session
\* opened before; session_id = 0 is below every curNext and is accepted as a
\* follow-up for every user, with or without a session, although
\* ENGINE_IS_PID_USED(user, 0) is false.
C35_FollowUpOfAnOpenedSessionOrZero ==
    /\ (FollowUpAccepted /\ last.tx.input.grant.sessionId >= 1) => SessionOpenedBefore
    /\ (ExecuteInvoked /\ ~BillingFailed /\ last.tx.input.grant.sessionId = 0) =>
          /\ last.res.obs.class = "followUp"
          /\ ~pidUsed(last.frame.snapshot, last.tx.input.grant.from, 0)

\* a follow-up of session 1 of user1, whose sessions 1 and 2 were opened before
C35_Witness ==
    /\ FollowUpAccepted /\ ~Failed(last.res)
    /\ last.tx.input.grant.from = "user1"
    /\ last.tx.input.grant.sessionId = 1
    /\ sloadU256(last.frame.snapshot, kNext("user1")) = 3
    /\ ~last.res.obs.wrote

-----------------------------------------------------------------------------
(* Properties of the settlement of ENGINE_EXECUTE *)

\* what the engine gained in the frame of an applied transaction
EngineGained(frame, engine) ==
    GetBalance(frame.st, engine) - GetBalance(frame.snapshot, engine)

\* the settlement of an applied transaction: the amount the engine received and
\* the three amounts returned
Settlement(r, engine) ==
    [failed |-> Failed(r.result), gained |-> EngineGained(r.frame, engine),
     totalUnits |-> r.result.out.totalUnits, evmRefund |-> r.result.out.evmRefund,
     engineFee |-> r.result.out.engineFee]

\* the settlement of the last transaction, had its inner CALL ended as oc
SettlementWith(oc) ==
    Settlement(Apply(last.pre.state, last.pre.accessList, last.pre.gasPool, last.pre.fees,
                     last.tx, oc), last.tx.from)

\* C36: the amount transferred from the user to the engine by ENGINE_EXECUTE
\* and the returned total_units, evm_refund and engine_fee are determined by
\* the input and the gas price alone: the same invocation settles the same
\* whatever the inner CALL's gas_used and whether it succeeded or failed.
C36_SettlementIndependentOfInnerCall ==
    ExecuteInvoked =>
        \A oc \in EngineOutcomes(last.tx) :
            SettlementWith(oc) =
                [failed |-> Failed(last.res), gained |-> EngineGained(last.frame, last.tx.from),
                 totalUnits |-> last.res.out.totalUnits, evmRefund |-> last.res.out.evmRefund,
                 engineFee |-> last.res.out.engineFee]

-----------------------------------------------------------------------------
(* Properties of the session counters of other users *)

\* the session counter of user u as stored in journal st
StoredNext(st, u) == sloadU256(st, kNext(u))

\* the last transaction invoked the precompile
PrecompileInvoked == Wrote /\ last.tx.to = EngineExecutePrecompile

-----------------------------------------------------------------------------
(* Properties of a snapshot after RevertTo *)

\* C38: after RevertTo(s), further AddAddress and AddSlot calls on the access
\* list leave the contents of the snapshot s unchanged, so restoring the same
\* snapshot s a second time yields the same membership as the first restore.
C38_SnapshotKeptAfterRevertTo ==
    frames.ret.reverted =>
        LET s == frames.maps[frames.ret.snap]
        IN  /\ \A a \in Addr :
                  ContainsAddress(s, a) = ContainsAddress(frames.ret.after, a)
            /\ \A k \in Slots :
                  ContainsSlot(s, k[1], k[2]) = ContainsSlot(frames.ret.after, k[1], k[2])

-----------------------------------------------------------------------------
(* Properties of WithStateOverride *)

\* WithStateOverride has returned its error
OverrideRefused == last.op = "WithStateOverride" /\ last.err # ErrNone

\* C39: if WithStateOverride returns the error for an entry that sets both
\* state and state_diff, then no override of the whole set has been applied:
\* the nonce, balance, code and storage of every address, including addresses
\* whose entries are valid, are as before the call.
C39_RefusedOverrideAppliesNothing ==
    OverrideRefused =>
        /\ \A a \in Addr :
              /\ GetNonce(state, a) = GetNonce(last.pre, a)
              /\ GetBalance(state, a) = GetBalance(last.pre, a)
              /\ GetCode(state, a) = GetCode(last.pre, a)
        /\ \A k \in Slots : GetState(state, k[1], k[2]) = GetState(last.pre, k[1], k[2])

-----------------------------------------------------------------------------
(* Properties of ProcessBlock *)

\* ProcessBlock has returned a Transition
BlockProcessed == last.op = "ProcessBlock" /\ last.err = ErrNone

\* ProcessBlock has returned an error
BlockRefused == last.op = "ProcessBlock" /\ last.err # ErrNone

\* the transactions of the receipts, in the order of the receipts
ReceiptTxs == [i \in 1 .. Len(receipts) |-> receipts[i].tx]

\* the transactions of seq that ProcessBlock does not leave out, in their order
RECURSIVE WithinGasLimit(_)
WithinGasLimit(seq) ==
    IF seq = <<>> THEN <<>>
    ELSE IF Head(seq).gas > BlockGasLimit THEN WithinGasLimit(Tail(seq))
    ELSE <<Head(seq)>> \o WithinGasLimit(Tail(seq))

\* C40 as stated: when ProcessBlock succeeds, the receipt list has one receipt
\* per block transaction, in block order, so a transaction whose gas exceeds
\* header.gas_limit makes ProcessBlock fail rather than being left out.
C40_OneReceiptPerBlockTransaction ==
    /\ BlockProcessed => ReceiptTxs = last.block
    /\ (last.op = "ProcessBlock" /\ \E i \in DOMAIN last.block :
                                        last.block[i].gas > BlockGasLimit) => BlockRefused

\* C40: ProcessBlock applies the block's transactions strictly in block order
\* on one Transition and returns an error with no Transition as soon as one
\* Write fails; when it succeeds, the receipt list has one receipt per block
\* transaction whose gas does not exceed header.gas_limit, in block order; a
\* transaction whose gas exceeds header.gas_limit is left out of the result and
\* is never the one that makes ProcessBlock fail.
C40_OneReceiptPerTransactionWithinGasLimit ==
    /\ BlockProcessed => ReceiptTxs = WithinGasLimit(last.block)
    /\ BlockRefused =>
          /\ last.left \in 1 .. Len(last.block)
          /\ last.block[Len(last.block) - last.left + 1].gas <= BlockGasLimit
          /\ state = last.pre /\ receipts = <<>> /\ totalGas = 0

\* ProcessBlock has returned a Transition for a block of three transactions,
\* the second of which exceeds the gas limit: two receipts, in block order
C40_Witness ==
    /\ BlockProcessed
    /\ Len(last.block) = MaxBlock
    /\ last.block[2].gas > BlockGasLimit
    /\ Len(receipts) = 2
    /\ receipts[1].tx = last.block[1]
    /\ receipts[2].tx = last.block[3]
    /\ receipts[1].tx.from = receipts[2].tx.from

====
